---- MODULE Spec2Model ----
(***************************************************************************)
(* Trigger matching of graph-node: the log, call and block filters that    *)
(* graph/src/components/ethereum/adapter.rs compiles from the data sources *)
(* of a subgraph, and the operations on them; and the RuntimeHost of       *)
(* runtime/wasm/src/host.rs: its predicates, its process_* operations and  *)
(* the mapping thread that serves them.                                    *)
(*                                                                         *)
(* Rust values are written as follows.  Option<T>: None is <<>> and        *)
(* Some(x) is <<x>>.  A String is the sequence of its characters, each a   *)
(* one-character string.  Bytes are sequences of numbers 0..255.  A        *)
(* HashSet is a set, a HashMap a function on its key set, a Vec a          *)
(* sequence.  A call that can panic returns Returned(v) or Panicked.       *)
(***************************************************************************)
EXTENDS Integers, Sequences, FiniteSets, TLC

VARIABLES
    log_filter,     \* an EthereumLogFilter: contract_address_and_event_sig_pairs
    log_sources,    \* history: the data sources log_filter was compiled from
    call_filter,    \* an EthereumCallFilter: contract_addresses_function_signatures
    call_origin,    \* history: [kind, from]: how call_filter was obtained, and from what
    block_filter,   \* an EthereumBlockFilter: [contract_addresses, trigger_every_block]
    block_sources,  \* history: the data sources block_filter was compiled from
    op,             \* the last operation: [name, args, ret]
    host,           \* Option<RuntimeHost>: the fields new() copies out of the config
    guard,          \* RuntimeHost._guard, the cancel sender: "none", "held" or "dropped"
    worker,         \* the mapping thread: [state, request]
    queue,          \* the MappingRequests buffered in the request channel
    futures,        \* the futures the process_* calls returned, in call order
    enqueued,       \* history: the ids of the requests sent into the channel, in order
    invoked,        \* history: the ids of the requests whose handler was started, in order
    completed       \* history: the ids of the requests whose handler returned, in order

host_vars == <<host, guard, worker, queue, futures, enqueued, invoked, completed>>

vars == <<log_filter, log_sources, call_filter, call_origin, block_filter, block_sources, op,
          host, guard, worker, queue, futures, enqueued, invoked, completed>>

\* ------------------------------------------------------------------ bounds

\* The longest list of data sources a filter is compiled from (A ++ B included).
MaxSources == 2
\* Block numbers run over 0..MaxBlockNum.
MaxBlockNum == 3

\* ------------------------------------------------------------- Rust values

None == <<>>
Some(x) == <<x>>

Range(s) == {s[i] : i \in 1..Len(s)}

Returned(v) == <<"return", v>>
Panicked == <<"panic">>

\* --------------------------------------------------------------- keccak256

\* tiny_keccak::keccak256 on the signatures the model uses.  A digest is
\* abbreviated to five bytes: bytes 0..3 are the digest's first four bytes
\* and the fifth stands for bytes 4..31.  burn(uint256) and
\* collate_propagate_storage(bytes16) share their first four bytes and
\* differ after them.
keccak256(sig) ==
    CASE sig = "Transfer(address,address,uint256)"  -> <<221, 242, 82, 173, 27>>
      [] sig = "Approval(address,address,uint256)"  -> <<140, 91, 225, 229, 235>>
      [] sig = "set(uint256)"                       -> <<96, 254, 71, 177, 1>>
      [] sig = "burn(uint256)"                      -> <<66, 150, 108, 104, 2>>
      [] sig = "collate_propagate_storage(bytes16)" -> <<66, 150, 108, 104, 3>>
      [] OTHER                                      -> <<0, 0, 0, 0, 0>>

\* MappingEventHandler::topic0: the hash of the declared event signature.
topic0(event_handler) == keccak256(event_handler.event)

\* [sig[0], sig[1], sig[2], sig[3]]
method_id(function) == SubSeq(keccak256(function), 1, 4)

\* ------------------------------------------------------ str::parse::<u64>

to_digit(c) ==
    CASE c = "0" -> 0 [] c = "1" -> 1 [] c = "2" -> 2 [] c = "3" -> 3
      [] c = "4" -> 4 [] c = "5" -> 5 [] c = "6" -> 6 [] c = "7" -> 7
      [] c = "8" -> 8 [] c = "9" -> 9 [] OTHER -> -1

\* u64::MAX = 18446744073709551615, digit by digit.
U64MaxDigits == <<1, 8, 4, 4, 6, 7, 4, 4, 0, 7, 3, 7, 0, 9, 5, 5, 1, 6, 1, 5>>

RECURSIVE StripZeros(_)
StripZeros(ds) ==
    IF ds # <<>> /\ Head(ds) = 0 THEN StripZeros(Tail(ds)) ELSE ds

RECURSIVE LexLess(_, _)
\* a < b for digit sequences of the same length
LexLess(a, b) ==
    IF a = <<>> THEN FALSE
    ELSE IF Head(a) # Head(b) THEN Head(a) < Head(b)
    ELSE LexLess(Tail(a), Tail(b))

\* a < b for the numbers two digit sequences denote
DigitsLess(a, b) ==
    LET x == StripZeros(a)
        y == StripZeros(b)
    IN  IF Len(x) # Len(y) THEN Len(x) < Len(y) ELSE LexLess(x, y)

RECURSIVE DigitsValue(_, _)
DigitsValue(acc, ds) ==
    IF ds = <<>> THEN acc ELSE DigitsValue(acc * 10 + Head(ds), Tail(ds))

\* s.parse::<u64>().ok(): an optional leading '+', then decimal digits only;
\* the empty string, any other character and a value above u64::MAX are errors.
parse_u64(src) ==
    IF src = <<>> THEN None
    ELSE LET digits == IF Head(src) = "+" THEN Tail(src) ELSE src
             ds == [i \in 1..Len(digits) |-> to_digit(digits[i])]
         IN  IF digits = <<>> THEN None
             ELSE IF \E i \in 1..Len(ds) : ds[i] = -1 THEN None
             ELSE IF DigitsLess(U64MaxDigits, ds) THEN None
             ELSE Some(DigitsValue(0, ds))

\* data_source.source.start_block.as_ref().and_then(|num| num.parse::<u64>().ok())
start_block_of(data_source) ==
    IF data_source.start_block = None THEN None
    ELSE parse_u64(data_source.start_block[1])

\* ------------------------------------------------------------------ inputs

Addresses == {"0xAAAA", "0xBBBB"}

\* 2^64, one more than u64::MAX
TwoTo64 == <<"1","8","4","4","6","7","4","4","0","7","3","7","0","9","5","5","1","6","1","6">>

StartBlockStrings == { <<"1">>, <<"+", "2">>, <<"-", "1">>, TwoTo64 }

Topics == { keccak256("Transfer(address,address,uint256)"),
            keccak256("Approval(address,address,uint256)") }

\* ------------------------------------------------------- EthereumLogFilter

\* `start_block < block_num` on an Option<u64>: None is below every number.
start_block_lt(start_block, block_num) ==
    start_block = None \/ start_block[1] < block_num

start_block_le(start_block, block_num) ==
    start_block = None \/ start_block[1] <= block_num

EthereumLogFilter_matches_le(self, log, block_num) ==
    IF log.topics = <<>> THEN FALSE
    ELSE LET sig == Head(log.topics)
         IN  \E pair \in self :
                IF pair[2] # None
                THEN pair[2][1] = log.address /\ pair[3] = sig
                     /\ start_block_le(pair[1], block_num)
                ELSE pair[3] = sig /\ start_block_le(pair[1], block_num)

EthereumLogFilter_matches(self, log, block_num) ==
    IF log.topics = <<>> THEN FALSE
    ELSE LET sig == Head(log.topics)
         IN  \E pair \in self :
                IF pair[2] # None
                THEN pair[2][1] = log.address /\ pair[3] = sig
                     /\ start_block_lt(pair[1], block_num)
                ELSE pair[3] = sig /\ start_block_lt(pair[1], block_num)

EthereumLogFilter_from_data_sources(iter) ==
    UNION { { <<start_block_of(data_source), data_source.address, topic0(event_handler)>> :
                event_handler \in Range(data_source.event_handlers) } :
            data_source \in Range(iter) }

EthereumLogFilter_extend_replace(self, other) == other

EthereumLogFilter_extend(self, other) == self \cup other

only_activated_filters_gt(self, start_block) ==
    { pair \in self : IF pair[1] # None THEN pair[1][1] > start_block ELSE TRUE }

only_activated_filters(self, start_block) ==
    { pair \in self : IF pair[1] # None THEN pair[1][1] >= start_block ELSE TRUE }

\* ------------------------------------------------------ EthereumCallFilter

\* A call filter maps an address to <<start_block, method ids>>.
EmptyCallFilter == [a \in {} |-> <<None, {}>>]

\* A matches that passes over the entries that have a start block
EthereumCallFilter_matches_unstarted(self, call) ==
    IF call.to \notin DOMAIN self THEN Returned(FALSE)
    ELSE IF self[call.to][1] # None THEN Returned(FALSE)
    ELSE IF self[call.to][2] = {} THEN Returned(TRUE)
    ELSE IF Len(call.input) < 4 THEN Panicked
    ELSE Returned(SubSeq(call.input, 1, 4) \in self[call.to][2])

EthereumCallFilter_matches(self, call) ==
    IF call.to \notin DOMAIN self THEN Returned(FALSE)
    ELSE IF self[call.to][2] = {} THEN Returned(TRUE)
    \* &call.input.0[..4]: a slice past the end of the input panics
    ELSE IF Len(call.input) < 4 THEN Panicked
    ELSE Returned(SubSeq(call.input, 1, 4) \in self[call.to][2])

\* The (start_block, contract_addr, method id) triples of one data source.
call_filter_items(data_source) ==
    IF data_source.address = None THEN <<>>
    ELSE [i \in 1..Len(data_source.call_handlers) |->
            <<start_block_of(data_source), data_source.address[1],
              method_id(data_source.call_handlers[i].function)>>]

RECURSIVE flatten(_)
flatten(seqs) == IF seqs = <<>> THEN <<>> ELSE Head(seqs) \o flatten(Tail(seqs))

\* One step of the for_each in FromIterator: lookup after (start_block, address, sig)
call_filter_insert(lookup, item) ==
    LET address == item[2]
        entry == IF address \in DOMAIN lookup THEN lookup[address] ELSE <<item[1], {}>>
    IN  [a \in DOMAIN lookup \cup {address} |->
            IF a = address THEN <<entry[1], entry[2] \cup {item[3]}>> ELSE lookup[a]]

RECURSIVE call_filter_fold(_, _)
call_filter_fold(lookup, items) ==
    IF items = <<>> THEN lookup
    ELSE call_filter_fold(call_filter_insert(lookup, Head(items)), Tail(items))

\* A from_iter that stores a method id only when it first sees the address.
EthereumCallFilter_from_iter_first_only(items) ==
    LET addrs == {items[i][2] : i \in 1..Len(items)}
        first(a) == CHOOSE i \in 1..Len(items) :
                        items[i][2] = a /\ \A j \in 1..(i - 1) : items[j][2] # a
    IN  [a \in addrs |-> <<items[first(a)][1], {items[first(a)][3]}>>]

\* impl FromIterator<(Option<u64>, Address, [u8; 4])> for EthereumCallFilter
EthereumCallFilter_from_iter(items) == call_filter_fold(EmptyCallFilter, items)

\* A from_data_sources that makes an entry for every data source with an address
EthereumCallFilter_from_data_sources_every_address(iter) ==
    LET lookup == EthereumCallFilter_from_iter(
                      flatten([i \in 1..Len(iter) |-> call_filter_items(iter[i])]))
        with_address == {i \in 1..Len(iter) : iter[i].address # None}
    IN  [a \in {iter[i].address[1] : i \in with_address} |->
            IF a \in DOMAIN lookup THEN lookup[a]
            ELSE <<start_block_of(iter[CHOOSE i \in with_address : iter[i].address[1] = a]), {}>>]

EthereumCallFilter_from_data_sources(iter) ==
    EthereumCallFilter_from_iter(
        flatten([i \in 1..Len(iter) |-> call_filter_items(iter[i])]))

\* HashMap::extend: an entry of other replaces the entry of self under its key.
EthereumCallFilter_extend(self, other) ==
    [a \in DOMAIN self \cup DOMAIN other |->
        IF a \in DOMAIN other THEN other[a] ELSE self[a]]

\* A conversion that leaves out the pairs that have no start block.
CallFiltersFromBlockFilter_started_only(ethereum_block_filter) ==
    LET pairs == {p \in ethereum_block_filter.contract_addresses : p[1] # None}
        addrs == {p[2] : p \in pairs}
    IN  { [a \in addrs |-> <<f[a], {}>>] :
            f \in { g \in [addrs -> {p[1] : p \in pairs}] :
                        \A a \in addrs : <<g[a], a>> \in pairs } }

\* impl From<EthereumBlockFilter> for EthereumCallFilter.  The pairs are
\* collected into a HashMap in the iteration order of a HashSet, so of several
\* start blocks under one address any one may be the one that stays: the
\* operator is the set of call filters the conversion can return.
CallFiltersFromBlockFilter(ethereum_block_filter) ==
    LET pairs == ethereum_block_filter.contract_addresses
        addrs == {p[2] : p \in pairs}
    IN  { [a \in addrs |-> <<f[a], {}>>] :
            f \in { g \in [addrs -> {p[1] : p \in pairs}] :
                        \A a \in addrs : <<g[a], a>> \in pairs } }

\* ----------------------------------------------------- EthereumBlockFilter

DefaultBlockFilter == [contract_addresses |-> {}, trigger_every_block |-> FALSE]

EthereumBlockFilter_extend_and(self, other) ==
    [trigger_every_block |-> self.trigger_every_block /\ other.trigger_every_block,
     contract_addresses |-> self.contract_addresses \cup other.contract_addresses]

EthereumBlockFilter_extend(self, other) ==
    [trigger_every_block |-> self.trigger_every_block \/ other.trigger_every_block,
     contract_addresses |-> self.contract_addresses \cup other.contract_addresses]

\* A block filter that takes the address of every data source with a block handler.
block_filter_of_any_handler(data_source) ==
    [trigger_every_block |->
        \E i \in 1..Len(data_source.block_handlers) :
            data_source.block_handlers[i].filter = None,
     contract_addresses |->
        IF data_source.block_handlers # <<>>
        THEN {<<start_block_of(data_source), data_source.address[1]>>}
        ELSE {}]

\* The filter the fold of from_data_sources builds for one data source with an address.
block_filter_of(data_source) ==
    LET has_block_handler_with_call_filter ==
            \E i \in 1..Len(data_source.block_handlers) :
                data_source.block_handlers[i].filter = Some("Call")
        has_block_handler_without_filter ==
            \E i \in 1..Len(data_source.block_handlers) :
                data_source.block_handlers[i].filter = None
    IN  [trigger_every_block |-> has_block_handler_without_filter,
         contract_addresses |->
            IF has_block_handler_with_call_filter
            THEN {<<start_block_of(data_source), data_source.address[1]>>}
            ELSE {}]

RECURSIVE block_filter_fold(_, _)
block_filter_fold(filter_opt, iter) ==
    IF iter = <<>> THEN filter_opt
    ELSE IF Head(iter).address = None THEN block_filter_fold(filter_opt, Tail(iter))
    ELSE block_filter_fold(
            EthereumBlockFilter_extend(filter_opt, block_filter_of(Head(iter))),
            Tail(iter))

EthereumBlockFilter_from_data_sources(iter) ==
    block_filter_fold(DefaultBlockFilter, iter)

\* ------------------------------------------------------------ the machine
\*
\* A run compiles a filter from a list of data sources, extends it any number
\* of times and then asks it one question.  A log or call filter is made by
\* from_data_sources, from_iter or From only, so no method of it is called
\* before one of them.  op records the last call.

SeqsUpTo(S, n) == UNION { [1..k -> S] : k \in 0..n }

DataSource(address, start_block, event_handlers, call_handlers, block_handlers) ==
    [address |-> address, start_block |-> start_block,
     event_handlers |-> event_handlers, call_handlers |-> call_handlers,
     block_handlers |-> block_handlers]

StartBlocks == {None} \cup {Some(s) : s \in StartBlockStrings}

\* Data sources that declare event handlers only.
LogDataSources ==
    { DataSource(a, sb, ehs, <<>>, <<>>) :
        a \in {None, Some("0xAAAA")},
        sb \in StartBlocks,
        ehs \in { <<>>,
                  <<[event |-> "Transfer(address,address,uint256)", handler |-> "handleTransfer"]>>,
                  <<[event |-> "Transfer(address,address,uint256)", handler |-> "handleTransfer"],
                    [event |-> "Approval(address,address,uint256)", handler |-> "handleApproval"]>> } }

Logs ==
    { [address |-> a, topics |-> ts] :
        a \in Addresses,
        ts \in {<<>>} \cup { <<t>> : t \in Topics } }

BlockNumbers == 0..MaxBlockNum

Op(name, args, ret) == [name |-> name, args |-> args, ret |-> ret]

\* The operations that only read a filter.  They leave the filter as it is, so
\* every filter is asked each question once and a run ends with the answer.
Queries == {"log_matches", "log_only_activated_filters", "call_matches"}
Asked == op.name \in Queries

Init ==
    /\ log_filter = {}
    /\ log_sources = <<>>
    /\ call_filter = EmptyCallFilter
    /\ call_origin = [kind |-> "new", from |-> <<>>]
    /\ block_filter = DefaultBlockFilter
    /\ block_sources = <<>>
    /\ op = Op("new", <<>>, <<>>)
    /\ host = None
    /\ guard = "none"
    /\ worker = [state |-> "none", request |-> None]
    /\ queue = <<>>
    /\ futures = <<>>
    /\ enqueued = <<>>
    /\ invoked = <<>>
    /\ completed = <<>>

\* let f = EthereumLogFilter::from_data_sources(iter)
LogFromDataSources ==
    /\ op.name = "new"
    /\ \E iter \in SeqsUpTo(LogDataSources, MaxSources) :
        /\ log_filter' = EthereumLogFilter_from_data_sources(iter)
        /\ log_sources' = iter
        /\ op' = Op("log_from_data_sources", <<iter>>, log_filter')
        /\ UNCHANGED host_vars
        /\ UNCHANGED <<call_filter, call_origin, block_filter, block_sources>>

\* f.extend(EthereumLogFilter::from_data_sources(iter))
LogExtend ==
    /\ op.name # "new" /\ ~Asked
    /\ \E iter \in SeqsUpTo(LogDataSources, MaxSources - Len(log_sources)) :
        LET other == EthereumLogFilter_from_data_sources(iter)
        IN  /\ log_filter' = EthereumLogFilter_extend(log_filter, other)
            /\ log_sources' = log_sources \o iter
            /\ op' = Op("log_extend", <<log_filter, other>>, <<>>)
            /\ UNCHANGED host_vars
            /\ UNCHANGED <<call_filter, call_origin, block_filter, block_sources>>

\* f.matches(&log, &block_num)
LogMatches ==
    /\ op.name # "new" /\ ~Asked
    /\ \E log \in Logs, block_num \in BlockNumbers :
        /\ op' = Op("log_matches", <<log, block_num>>,
                    EthereumLogFilter_matches(log_filter, log, block_num))
        /\ UNCHANGED host_vars
        /\ UNCHANGED <<log_filter, log_sources, call_filter, call_origin,
                       block_filter, block_sources>>

\* f.only_activated_filters(start_block): a new filter, f itself is left as it is
LogOnlyActivated ==
    /\ op.name # "new" /\ ~Asked
    /\ \E start_block \in BlockNumbers :
        /\ op' = Op("log_only_activated_filters", <<start_block>>,
                    only_activated_filters(log_filter, start_block))
        /\ UNCHANGED host_vars
        /\ UNCHANGED <<log_filter, log_sources, call_filter, call_origin,
                       block_filter, block_sources>>

NextLog == LogFromDataSources \/ LogExtend \/ LogMatches \/ LogOnlyActivated

SpecLog == Init /\ [][NextLog]_vars

\* Data sources that declare call handlers only.
CallDataSources ==
    { DataSource(a, sb, <<>>, chs, <<>>) :
        a \in {None} \cup {Some(x) : x \in Addresses},
        sb \in {None, Some(<<"1">>)},
        chs \in { <<>>,
                  <<[function |-> "set(uint256)", handler |-> "handleSet"]>>,
                  <<[function |-> "burn(uint256)", handler |-> "handleBurn"]>>,
                  <<[function |-> "set(uint256)", handler |-> "handleSet"],
                    [function |-> "collate_propagate_storage(bytes16)", handler |-> "handleCollate"]>> } }

\* Data sources that declare block handlers only.
BlockDataSources ==
    { DataSource(a, sb, <<>>, <<>>, bhs) :
        a \in {None} \cup {Some(x) : x \in Addresses},
        sb \in {None, Some(<<"1">>), Some(<<"+", "2">>)},
        bhs \in { <<>>,
                  <<[handler |-> "handleBlock", filter |-> None]>>,
                  <<[handler |-> "handleBlockWithCall", filter |-> Some("Call")]>>,
                  <<[handler |-> "handleBlock", filter |-> None],
                    [handler |-> "handleBlockWithCall", filter |-> Some("Call")]>> } }

\* Call inputs: empty, three bytes, a method id alone, a method id and an
\* argument byte, and four bytes that are no declared method id.
CallInputs ==
    { <<>>, <<96, 254, 71>>, <<96, 254, 71, 177>>, <<96, 254, 71, 177, 42>>,
      <<66, 150, 108, 104>>, <<1, 2, 3, 4>> }

Calls == { [to |-> a, input |-> i] : a \in Addresses, i \in CallInputs }

\* let f = EthereumCallFilter::from_data_sources(iter)
CallFromDataSources ==
    /\ op.name = "new"
    /\ \E iter \in SeqsUpTo(CallDataSources, MaxSources) :
        /\ call_filter' = EthereumCallFilter_from_data_sources(iter)
        /\ call_origin' = [kind |-> "from_data_sources", from |-> iter]
        /\ op' = Op("call_from_data_sources", <<iter>>, call_filter')
        /\ UNCHANGED host_vars
        /\ UNCHANGED <<log_filter, log_sources, block_filter, block_sources>>

\* f.extend(EthereumCallFilter::from_data_sources(iter))
CallExtend ==
    /\ op.name # "new" /\ ~Asked
    /\ \E iter \in SeqsUpTo(CallDataSources, MaxSources - Len(call_origin.from)) :
        LET other == EthereumCallFilter_from_data_sources(iter)
        IN  /\ call_filter' = EthereumCallFilter_extend(call_filter, other)
            /\ call_origin' = [kind |-> "extended", from |-> call_origin.from \o iter]
            /\ op' = Op("call_extend", <<call_filter, other>>, <<>>)
            /\ UNCHANGED host_vars
            /\ UNCHANGED <<log_filter, log_sources, block_filter, block_sources>>

\* f.matches(&call)
CallMatches ==
    /\ call_origin.kind # "new" /\ ~Asked
    /\ \E call \in Calls :
        /\ op' = Op("call_matches", <<call>>, EthereumCallFilter_matches(call_filter, call))
        /\ UNCHANGED host_vars
        /\ UNCHANGED <<log_filter, log_sources, call_filter, call_origin,
                       block_filter, block_sources>>

NextCall == CallFromDataSources \/ CallExtend \/ CallMatches

SpecCall == Init /\ [][NextCall]_vars

\* let b = EthereumBlockFilter::from_data_sources(iter)
BlockFromDataSources ==
    /\ op.name = "new"
    /\ \E iter \in SeqsUpTo(BlockDataSources, MaxSources) :
        /\ block_filter' = EthereumBlockFilter_from_data_sources(iter)
        /\ block_sources' = iter
        /\ op' = Op("block_from_data_sources", <<iter>>, block_filter')
        /\ UNCHANGED host_vars
        /\ UNCHANGED <<log_filter, log_sources, call_filter, call_origin>>

\* let f = EthereumCallFilter::from(b)
CallFromBlockFilter ==
    /\ op.name = "block_from_data_sources"
    /\ \E f \in CallFiltersFromBlockFilter(block_filter) :
        /\ call_filter' = f
        /\ call_origin' = [kind |-> "from_block_filter", from |-> block_filter]
        /\ op' = Op("call_from_block_filter", <<block_filter>>, f)
        /\ UNCHANGED host_vars
        /\ UNCHANGED <<log_filter, log_sources, block_filter, block_sources>>

NextBlock == BlockFromDataSources \/ CallFromBlockFilter \/ CallMatches

SpecBlock == Init /\ [][NextBlock]_vars

\* ---------------------------------------------------- EthereumLogFilter claims

\* C1: matches(log, block_number) is false when log.topics is empty, and
\* otherwise true exactly when the filter holds a tuple (sb, a, s) with
\* s = log.topics[0], a unset or a = log.address, and sb unset or
\* sb < block_number.
C1_LogMatches ==
    op.name = "log_matches" =>
        LET log == op.args[1]
            block_number == op.args[2]
        IN  IF log.topics = <<>> THEN op.ret = FALSE
            ELSE op.ret = (\E t \in log_filter :
                              /\ t[3] = log.topics[1]
                              /\ (t[2] = None \/ t[2] = Some(log.address))
                              /\ (t[1] = None \/ t[1][1] < block_number))

\* A log whose block number equals the start block of the one tuple that has
\* its address and signature is not matched.
C1_Witness ==
    /\ op.name = "log_matches"
    /\ op.ret = FALSE
    /\ op.args[1].topics # <<>>
    /\ \E t \in log_filter :
          /\ t[3] = op.args[1].topics[1]
          /\ t[2] = Some(op.args[1].address)
          /\ t[1] = Some(op.args[2])

RECURSIVE ToDigits(_)
ToDigits(n) == IF n < 10 THEN <<n>> ELSE ToDigits(n \div 10) \o <<n % 10>>

\* The string s is a decimal numeral and the number it denotes is above n.
DenotesNumberAbove(s, n) ==
    /\ s # <<>>
    /\ \A i \in 1..Len(s) : to_digit(s[i]) # -1
    /\ DigitsLess(ToDigits(n), [i \in 1..Len(s) |-> to_digit(s[i])])

\* The log is emitted by the contract of data source D for an event D declares.
LogOf(log, D) ==
    /\ D.address = None \/ D.address = Some(log.address)
    /\ log.topics # <<>>
    /\ \E event_handler \in Range(D.event_handlers) :
          log.topics[1] = topic0(event_handler)

\* C2: the filter compiled from the one data source D, which has a start
\* block, matches no log of D at a block number below D's start block.
C2_NoMatchBeforeStartBlock ==
    (op.name = "log_matches" /\ Len(log_sources) = 1) =>
        LET D == log_sources[1]
            log == op.args[1]
            n == op.args[2]
        IN  ( /\ D.start_block # None
              /\ DenotesNumberAbove(D.start_block[1], n)
              /\ LogOf(log, D) ) => op.ret = FALSE

\* C5: the filter compiled from A and extended with the filter compiled from
\* B is the filter compiled from A ++ B.
C5_FromConcatIsExtend ==
    op.name = "log_extend" =>
        log_filter = EthereumLogFilter_from_data_sources(log_sources)

\* A filter compiled from a non-empty A is extended with one compiled from a
\* non-empty B that shares a tuple with it and adds another.
C5_Witness ==
    /\ op.name = "log_extend"
    /\ op.args[1] \cap op.args[2] # {}
    /\ op.args[2] \ op.args[1] # {}
    /\ Cardinality(log_filter) < Cardinality(op.args[1]) + Cardinality(op.args[2])

\* C10: only_activated_filters(start_block) returns exactly the tuples whose
\* start block is unset or is at least start_block.
C10_OnlyActivated ==
    op.name = "log_only_activated_filters" =>
        /\ op.ret \subseteq log_filter
        /\ \A t \in log_filter :
              t \in op.ret <=> (t[1] = None \/ ~(t[1][1] < op.args[1]))

\* A tuple whose start block equals start_block is kept, one below it is dropped.
C10_Witness ==
    /\ op.name = "log_only_activated_filters"
    /\ \E t \in op.ret : t[1] = Some(op.args[1])
    /\ \E t \in log_filter \ op.ret : t[1] # None /\ t[1][1] < op.args[1]

\* --------------------------------------------------- EthereumCallFilter claims

\* The first four bytes of an input, or all of it when it is shorter.
First4(input) == SubSeq(input, 1, IF Len(input) < 4 THEN Len(input) ELSE 4)

\* C3: matches(call) returns false when call.to has no entry, true when the
\* entry's set of method ids is empty, and otherwise true exactly when the
\* first four bytes of call.input are in that set.
C3_CallMatches ==
    op.name = "call_matches" =>
        LET call == op.args[1]
        IN  op.ret = Returned(
                IF call.to \notin DOMAIN call_filter THEN FALSE
                ELSE IF call_filter[call.to][2] = {} THEN TRUE
                ELSE First4(call.input) \in call_filter[call.to][2])

\* C4: after a.extend(b) an address in one filter only keeps its entry, and
\* an address in both has the union of the two sets of method ids and the
\* start block of b.
C4_ExtendMergesEntries ==
    op.name = "call_extend" =>
        LET a == op.args[1]
            b == op.args[2]
        IN  /\ DOMAIN call_filter = DOMAIN a \cup DOMAIN b
            /\ \A addr \in DOMAIN a \ DOMAIN b : call_filter[addr] = a[addr]
            /\ \A addr \in DOMAIN b \ DOMAIN a : call_filter[addr] = b[addr]
            /\ \A addr \in DOMAIN a \cap DOMAIN b :
                  call_filter[addr] = <<b[addr][1], a[addr][2] \cup b[addr][2]>>

\* The method ids a call filter stores under an address.
MethodIdsUnder(filter, address) ==
    IF address \in DOMAIN filter THEN filter[address][2] ELSE {}

\* C6: the method ids from_data_sources stores under an address are exactly
\* the first four bytes of keccak256 of the call handlers' signatures of the
\* data sources that have this address; data sources without an address
\* contribute nothing.
C6_MethodIdsAreKeccakPrefixes ==
    op.name = "call_from_data_sources" =>
        /\ \A address \in Addresses :
              MethodIdsUnder(call_filter, address) =
                  { SubSeq(keccak256(call_handler.function), 1, 4) :
                      call_handler \in UNION { Range(D.call_handlers) :
                          D \in { E \in Range(call_origin.from) :
                                     E.address = Some(address) } } }
        /\ DOMAIN call_filter \subseteq Addresses

\* Two data sources of one address, the second with another signature, and a
\* data source without an address that declares a call handler.
C6_Witness ==
    /\ op.name = "call_from_data_sources"
    /\ \E address \in DOMAIN call_filter : Cardinality(call_filter[address][2]) = 2
    /\ Len(call_origin.from) = 2
    /\ call_origin.from[1].address = call_origin.from[2].address
    /\ call_origin.from[1].call_handlers # <<>>
    /\ call_origin.from[2].call_handlers # <<>>
    /\ call_origin.from[1].call_handlers # call_origin.from[2].call_handlers

\* ---------------------------------------------------- EthereumBlockFilter claims

HasUntaggedBlockHandler(D) ==
    \E i \in 1..Len(D.block_handlers) : D.block_handlers[i].filter = None

HasCallBlockHandler(D) ==
    \E i \in 1..Len(D.block_handlers) : D.block_handlers[i].filter = Some("Call")

\* C7 as stated: a list that contains a data source with a block handler that
\* has no filter tag gives trigger_every_block = true.
C7_UntaggedTriggersEveryBlock ==
    op.name = "block_from_data_sources" =>
        ((\E D \in Range(block_sources) : HasUntaggedBlockHandler(D))
            => block_filter.trigger_every_block = TRUE)

\* C7 as amended: a list that contains a data source with an address and a
\* block handler that has no filter tag gives trigger_every_block = true.
C7_UntaggedWithAddressTriggersEveryBlock ==
    op.name = "block_from_data_sources" =>
        ((\E D \in Range(block_sources) : D.address # None /\ HasUntaggedBlockHandler(D))
            => block_filter.trigger_every_block = TRUE)

\* The untagged handler is in the second of two data sources with an address;
\* the first has none.
C7_Witness ==
    /\ op.name = "block_from_data_sources"
    /\ Len(block_sources) = 2
    /\ block_sources[1].address # None /\ ~HasUntaggedBlockHandler(block_sources[1])
    /\ block_sources[2].address # None /\ HasUntaggedBlockHandler(block_sources[2])
    /\ block_filter.trigger_every_block = TRUE

\* C8: contract_addresses is exactly the set of (parsed start block, address)
\* pairs of the data sources that have an address and a block handler tagged
\* "call".
C8_ContractAddresses ==
    op.name = "block_from_data_sources" =>
        block_filter.contract_addresses =
            { <<start_block_of(D), D.address[1]>> :
                D \in { E \in Range(block_sources) :
                            E.address # None /\ HasCallBlockHandler(E) } }

\* One data source adds its pair; another, with an address and an untagged
\* block handler only, adds none.
C8_Witness ==
    /\ op.name = "block_from_data_sources"
    /\ Cardinality(block_filter.contract_addresses) = 1
    /\ \E D \in Range(block_sources) :
          /\ D.address # None
          /\ D.block_handlers # <<>>
          /\ ~HasCallBlockHandler(D)
          /\ \A p \in block_filter.contract_addresses : p[2] # D.address[1]

\* C9: the call filter converted from a block filter has one entry for each
\* address of contract_addresses, each with no method ids; it matches every
\* call to one of these addresses and no call to another address.
C9_ConvertedFilterIsWildcard ==
    call_origin.kind = "from_block_filter" =>
        LET addrs == {p[2] : p \in call_origin.from.contract_addresses}
        IN  /\ DOMAIN call_filter = addrs
            /\ \A a \in DOMAIN call_filter : call_filter[a][2] = {}
            /\ op.name = "call_matches" =>
                  op.ret = Returned(op.args[1].to \in addrs)

\* A call with an input of less than four bytes to the one address of the
\* block filter is matched.
C9_Witness ==
    /\ call_origin.kind = "from_block_filter"
    /\ op.name = "call_matches"
    /\ Len(op.args[1].input) < 4
    /\ op.ret = Returned(TRUE)
    /\ Cardinality(DOMAIN call_filter) = 1

\* ================================================================ RuntimeHost

\* Result<T, Error>
Ok(v) == <<"Ok", v>>
Err(e) == <<"Err", e>>
IsOk(r) == r[1] = "Ok"
IsErr(r) == r[1] = "Err"

\* The least of a set of indexes, 0 when there is none: with the indexes of the
\* elements that satisfy a condition, Iterator::find.
FirstIndex(S) == IF S = {} THEN 0 ELSE CHOOSE i \in S : \A j \in S : i <= j

\* ------------------------------------------------------------ the ABI codec

\* An ABI word has 32 bytes.  It is abbreviated to two: the first stands for
\* bytes 0..30 and the second is byte 31.  A Token is [kind, value], the value
\* a number (a Bool is 0 or 1).
Word(hi, lo) == <<hi, lo>>

\* ethabi::decoder::slice_data: the data cut into words, an error when its
\* length is no multiple of the word length.
slice_data(data) ==
    IF Len(data) % 2 # 0
    THEN Err("InvalidData")
    ELSE Ok([i \in 1..(Len(data) \div 2) |-> <<data[2 * i - 1], data[2 * i]>>])

\* ethabi::decoder::decode_param on the static types the model uses.  A word
\* decodes as a bool only if bytes 0..30 are zero, and is true if byte 31 is 1.
decode_param(kind, slice) ==
    CASE kind = "uint256" -> Ok([kind |-> "Uint", value |-> slice[1] * 256 + slice[2]])
      [] kind = "address" -> Ok([kind |-> "Address", value |-> slice[1] * 256 + slice[2]])
      [] kind = "bool"    -> IF slice[1] # 0
                             THEN Err("InvalidData")
                             ELSE Ok([kind |-> "Bool", value |-> IF slice[2] = 1 THEN 1 ELSE 0])

\* ethabi::decode(types, data): one token per type, read word by word; an
\* error when the data is empty though a type needs a word, when it is no
\* sequence of words, when it has fewer words than types or when a word does
\* not decode.  Words after the last type are ignored.
decode(types, data) ==
    IF data = <<>> /\ types # <<>>
    THEN Err("failed to decode empty bytes")
    ELSE LET slices == slice_data(data)
         IN  IF IsErr(slices) THEN slices
             ELSE IF Len(slices[2]) < Len(types) THEN Err("InvalidData")
             ELSE LET tokens == [i \in 1..Len(types) |-> decode_param(types[i], slices[2][i])]
                  IN  IF \E i \in 1..Len(types) : IsErr(tokens[i])
                      THEN Err("InvalidData")
                      ELSE Ok([i \in 1..Len(types) |-> tokens[i][2]])

\* ethabi::encode on the tokens the model uses: one word per token.
encode_token(token) == Word(token.value \div 256, token.value % 256)
RECURSIVE encode(_)
encode(tokens) ==
    IF tokens = <<>> THEN <<>> ELSE encode_token(tokens[1]) \o encode(Tail(tokens))

\* An ethabi Event is [signature, inputs], inputs a list of [name, kind, indexed];
\* a Function is [signature, inputs, outputs], both lists of [name, kind].  The
\* signature is the canonical one ethabi derives from the name and the kinds.
Kinds(params) == [i \in 1..Len(params) |-> params[i].kind]

\* Function::decode_output(data): the data decoded against the OUTPUT types.
decode_output(function_abi, data) == decode(Kinds(function_abi.outputs), data)

\* Event::parse_log(RawLog {topics, data}): topics[0] is the event's hash, the
\* topics after it are decoded against the indexed inputs and the data against
\* the others; the result names every input, in the order of the declaration.
RECURSIVE concat(_)
concat(ss) == IF ss = <<>> THEN <<>> ELSE ss[1] \o concat(Tail(ss))

parse_log(event_abi, topics, data) ==
    IF topics = <<>> \/ topics[1] # keccak256(event_abi.signature)
    THEN Err("InvalidData")
    ELSE LET IsIndexed(p) == p.indexed
             IsData(p) == ~p.indexed
             topic_params == SelectSeq(event_abi.inputs, IsIndexed)
             data_params == SelectSeq(event_abi.inputs, IsData)
             topic_tokens == decode(Kinds(topic_params), concat(Tail(topics)))
             data_tokens == decode(Kinds(data_params), data)
             named == [p \in Range(topic_params) \cup Range(data_params) |->
                          IF p.indexed
                          THEN topic_tokens[2][FirstIndex({k \in 1..Len(topic_params) : topic_params[k] = p})]
                          ELSE data_tokens[2][FirstIndex({k \in 1..Len(data_params) : data_params[k] = p})]]
         IN  IF IsErr(topic_tokens) THEN topic_tokens
             ELSE IF IsErr(data_tokens) THEN data_tokens
             ELSE Ok([i \in 1..Len(event_abi.inputs) |->
                         [name |-> event_abi.inputs[i].name,
                          value |-> named[event_abi.inputs[i]]]])

\* util::ethereum::string_to_h256: the keccak-256 hash of the string.
string_to_h256(s) == keccak256(s)

\* util::ethereum::contract_event_with_signature: the event of the contract
\* with this signature, None when the ABI has none.
contract_event_with_signature(contract, signature) ==
    LET i == FirstIndex({k \in 1..Len(contract.events) :
                            keccak256(contract.events[k].signature) = string_to_h256(signature)})
    IN  IF i = 0 THEN None ELSE Some(contract.events[i])

\* util::ethereum::contract_function_with_signature: the function of the
\* contract with this signature, None when the ABI has none.
contract_function_with_signature(contract, target_signature) ==
    LET i == FirstIndex({k \in 1..Len(contract.functions) :
                            contract.functions[k].signature = target_signature})
    IN  IF i = 0 THEN None ELSE Some(contract.functions[i])

\* ------------------------------------------------------- RuntimeHost methods

\* A RuntimeHostConfig is cfg = [data_source |-> [name, source |-> [address, abi],
\* mapping |-> [abis, event_handlers, transaction_handlers, block_handler]]],
\* abis a list of MappingABI = [name, contract].  A RuntimeHost is the record
\* of the fields new() copies out of the config.  The logger, the block and
\* the transaction are handed through untouched and are left out.

\* RuntimeHost::new that takes the first ABI of the mapping, whatever its name
RuntimeHost_new_first_abi(config) ==
    LET data_source == config.data_source
    IN  IF data_source.mapping.abis = <<>>
        THEN Err("No ABI entry found for the main contract of data source")
        ELSE Ok([data_source_name |-> data_source.name,
                 data_source_contract |-> data_source.source,
                 data_source_contract_abi |-> data_source.mapping.abis[1],
                 data_source_event_handlers |-> data_source.mapping.event_handlers,
                 data_source_call_handlers |-> data_source.mapping.transaction_handlers,
                 data_source_block_handler |-> data_source.mapping.block_handler])

\* RuntimeHost::new up to the spawning of the thread: the first ABI whose name
\* is the one the source declares, an error when there is none.
RuntimeHost_new(config) ==
    LET data_source == config.data_source
        i == FirstIndex({k \in 1..Len(data_source.mapping.abis) :
                            data_source.mapping.abis[k].name = data_source.source.abi})
    IN  IF i = 0
        THEN Err("No ABI entry found for the main contract of data source")
        ELSE Ok([data_source_name |-> data_source.name,
                 data_source_contract |-> data_source.source,
                 data_source_contract_abi |-> data_source.mapping.abis[i],
                 data_source_event_handlers |-> data_source.mapping.event_handlers,
                 data_source_call_handlers |-> data_source.mapping.transaction_handlers,
                 data_source_block_handler |-> data_source.mapping.block_handler])

\* self.data_source_contract.address == call.to: an Option<Address> against an
\* Address, equal when the option holds that address.
matches_call_address(self, call) == self.data_source_contract.address = Some(call.to)

\* &call.input.0[..4] panics when the input has fewer than four bytes.
matches_call_function(self, call) ==
    IF Len(call.input) < 4
    THEN Panicked
    ELSE Returned(\E handler \in Range(self.data_source_call_handlers) :
                      SubSeq(keccak256(handler.function), 1, 4) = SubSeq(call.input, 1, 4))

matches_log_address(self, log) == self.data_source_contract.address = Some(log.address)

matches_log_signature(self, log) ==
    IF log.topics = <<>>
    THEN FALSE
    ELSE \E event_handler \in Range(self.data_source_event_handlers) :
             log.topics[1] = string_to_h256(event_handler.event)

handler_for_log(self, log) ==
    IF log.topics = <<>>
    THEN Err("Ethereum event has no topics")
    ELSE LET i == FirstIndex({k \in 1..Len(self.data_source_event_handlers) :
                                 log.topics[1] =
                                     string_to_h256(self.data_source_event_handlers[k].event)})
         IN  IF i = 0
             THEN Err("No event handler found for event in data source")
             ELSE Ok(self.data_source_event_handlers[i])

\* handler_for_call without the check of the length of the input
handler_for_call_unchecked(self, call) ==
    LET i == FirstIndex({k \in 1..Len(self.data_source_call_handlers) :
                            SubSeq(keccak256(self.data_source_call_handlers[k].function), 1, 4)
                                = First4(call.input)})
    IN  IF i = 0
        THEN Err("No call handler found for call in data source")
        ELSE Ok(self.data_source_call_handlers[i])

handler_for_call(self, call) ==
    IF Len(call.input) < 4
    THEN Err("Ethereum call has input with less than 4 bytes")
    ELSE LET i == FirstIndex({k \in 1..Len(self.data_source_call_handlers) :
                                 SubSeq(keccak256(self.data_source_call_handlers[k].function), 1, 4)
                                     = SubSeq(call.input, 1, 4)})
         IN  IF i = 0
             THEN Err("No call handler found for call in data source")
             ELSE Ok(self.data_source_call_handlers[i])

handler_for_block(self) ==
    IF self.data_source_block_handler = None
    THEN Err("RuntimeHost does not have a block handler")
    ELSE Ok(self.data_source_block_handler[1])

\* matches_log without the comparison of the addresses
matches_log_any_address(self, log) == matches_log_signature(self, log)

\* matches_log_address(log) && matches_log_signature(log)
matches_log(self, log) == matches_log_address(self, log) /\ matches_log_signature(self, log)

\* matches_call without the comparison of the addresses
matches_call_any_address(self, call) == matches_call_function(self, call)

\* matches_call_address(call) && matches_call_function(call): && does not
\* evaluate its right side when the left is false.
matches_call(self, call) ==
    IF matches_call_address(self, call)
    THEN matches_call_function(self, call)
    ELSE Returned(FALSE)

\* matches_block that asks for a call handler of the called function as well
matches_block_with_function(self, block, call) ==
    /\ self.data_source_block_handler # None
    /\ matches_call(self, call) = Returned(TRUE)

\* data_source_block_handler.is_some() && matches_call_address(call)
matches_block(self, block, call) ==
    self.data_source_block_handler # None /\ matches_call_address(self, call)

\* The tokens paired with the names of the parameters: LogParam {name, value}.
named_params(params, tokens) ==
    [i \in 1..Len(tokens) |-> [name |-> params[i].name, value |-> tokens[i]]]

\* What a process_* call does before it returns its future: Err(e) when the
\* future is future::err(e), else Ok of the MappingRequest the future will
\* send, as [trigger, entity_operations].

\* The inputs of process_call: call.input after the method id goes through
\* decode_output, and the tokens are counted against function_abi.inputs.
call_inputs(function_abi, call) ==
    LET tokens == decode_output(function_abi, SubSeq(call.input, 5, Len(call.input)))
    IN  IF IsErr(tokens)
        THEN Err("Generating function inputs for an Ethereum call failed")
        ELSE IF Len(tokens[2]) # Len(function_abi.inputs)
        THEN Err("Number of arguments in call does not match number of inputs in function signature.")
        ELSE Ok(named_params(function_abi.inputs, tokens[2]))

call_outputs(function_abi, call) ==
    LET tokens == decode_output(function_abi, call.output)
    IN  IF IsErr(tokens)
        THEN Err("Generating function outputs for an Ethereum call failed")
        ELSE IF Len(tokens[2]) # Len(function_abi.outputs)
        THEN Err("Number of paramters in the call output does not match number of outputs in the function signature.")
        ELSE Ok(named_params(function_abi.outputs, tokens[2]))

process_call(self, call, entity_operations) ==
    LET call_handler == handler_for_call(self, call)
        function_abi == contract_function_with_signature(
                            self.data_source_contract_abi.contract, call_handler[2].function)
        inputs == call_inputs(function_abi[1], call)
        outputs == call_outputs(function_abi[1], call)
    IN  IF IsErr(call_handler) THEN call_handler
        ELSE IF function_abi = None
        THEN Err("Function with the signature not found in contract")
        ELSE IF IsErr(inputs) THEN inputs
        ELSE IF IsErr(outputs) THEN outputs
        ELSE Ok([trigger |-> [kind |-> "Call", call |-> call, inputs |-> inputs[2],
                              outputs |-> outputs[2], handler |-> call_handler[2]],
                 entity_operations |-> entity_operations])

\* process_block that hands no entity operations on
process_block_without_operations(self, entity_operations) ==
    LET block_handler == handler_for_block(self)
    IN  IF IsErr(block_handler) THEN block_handler
        ELSE Ok([trigger |-> [kind |-> "Block", handler |-> block_handler[2]],
                 entity_operations |-> <<>>])

process_block(self, entity_operations) ==
    LET block_handler == handler_for_block(self)
    IN  IF IsErr(block_handler) THEN block_handler
        ELSE Ok([trigger |-> [kind |-> "Block", handler |-> block_handler[2]],
                 entity_operations |-> entity_operations])

process_log(self, log, entity_operations) ==
    LET event_handler == handler_for_log(self, log)
        event_abi == contract_event_with_signature(
                         self.data_source_contract_abi.contract, event_handler[2].event)
        params == parse_log(event_abi[1], log.topics, log.data)
    IN  IF IsErr(event_handler) THEN event_handler
        ELSE IF event_abi = None
        THEN Err("Event with the signature not found in contract")
        ELSE IF IsErr(params)
        THEN Err("Failed to parse parameters of event")
        ELSE Ok([trigger |-> [kind |-> "Log", log |-> log, params |-> params[2],
                              handler |-> event_handler[2]],
                 entity_operations |-> entity_operations])

\* ---------------------------------------------------------- RuntimeHost inputs

\* The most process_* calls made on one host.
MaxCalls == 2

Param(name, kind) == [name |-> name, kind |-> kind]
EventParam(name, kind, indexed) == [name |-> name, kind |-> kind, indexed |-> indexed]

TransferEvent ==
    [signature |-> "Transfer(address,address,uint256)",
     inputs |-> <<EventParam("from", "address", TRUE), EventParam("to", "address", TRUE),
                  EventParam("value", "uint256", FALSE)>>]
ApprovalEvent ==
    [signature |-> "Approval(address,address,uint256)",
     inputs |-> <<EventParam("owner", "address", TRUE), EventParam("spender", "address", TRUE),
                  EventParam("value", "uint256", FALSE)>>]

\* function set(uint256 _value)
SetFunction ==
    [signature |-> "set(uint256)", inputs |-> <<Param("_value", "uint256")>>, outputs |-> <<>>]
\* function set(uint256 _value) returns (uint256 old)
SetReturningFunction ==
    [signature |-> "set(uint256)", inputs |-> <<Param("_value", "uint256")>>,
     outputs |-> <<Param("old", "uint256")>>]
\* function burn(uint256 amount) returns (bool ok)
BurnFunction ==
    [signature |-> "burn(uint256)", inputs |-> <<Param("amount", "uint256")>>,
     outputs |-> <<Param("ok", "bool")>>]

\* Two ABIs: Token has no Approval event, Store has neither burn nor
\* collate_propagate_storage.
TokenABI ==
    [name |-> "Token",
     contract |-> [events |-> <<TransferEvent>>, functions |-> <<SetFunction, BurnFunction>>]]
StoreABI ==
    [name |-> "Store",
     contract |-> [events |-> <<TransferEvent, ApprovalEvent>>,
                   functions |-> <<SetReturningFunction>>]]

EventHandler(event) == [event |-> event, handler |-> "handleEvent"]
TransactionHandler(function) == [function |-> function, handler |-> "handleCall"]
BlockHandler == [handler |-> "handleBlock", filter |-> None]

Config(address, abi, abis, event_handlers, transaction_handlers, block_handler) ==
    [data_source |->
        [name |-> "Gravity",
         source |-> [address |-> address, abi |-> abi],
         mapping |-> [abis |-> abis, event_handlers |-> event_handlers,
                      transaction_handlers |-> transaction_handlers,
                      block_handler |-> block_handler]]]

HostConfigs ==
    { Config(address, abi, abis, event_handlers, transaction_handlers, block_handler) :
        address \in {None, Some("0xAAAA")},
        abi \in {"Token", "Store"},
        abis \in {<<TokenABI, StoreABI>>, <<StoreABI>>},
        event_handlers \in {<<>>, <<EventHandler("Transfer(address,address,uint256)")>>,
                            <<EventHandler("Approval(address,address,uint256)"),
                              EventHandler("Transfer(address,address,uint256)")>>},
        transaction_handlers \in {<<>>, <<TransactionHandler("set(uint256)")>>,
                                  <<TransactionHandler("collate_propagate_storage(bytes16)"),
                                    TransactionHandler("burn(uint256)")>>,
                                  <<TransactionHandler("burn(uint256)"),
                                    TransactionHandler("set(uint256)")>>},
        block_handler \in {None, Some(BlockHandler)} }

\* The entity operations that are handed to a process_* call.
PriorOps == {<<>>, <<"Set(Account, 1)">>}

HostLogs ==
    [address : Addresses,
     topics : {<<>>,
               <<keccak256("Transfer(address,address,uint256)")>>,
               <<keccak256("Transfer(address,address,uint256)"), Word(0, 1), Word(0, 2)>>,
               <<keccak256("Approval(address,address,uint256)"), Word(0, 1), Word(0, 2)>>,
               <<keccak256("OwnershipTransferred(address,address)")>>},
     data : {<<>>, Word(0, 5)}]

HostCalls ==
    [to : Addresses,
     input : {<<>>, <<96, 254, 71>>, <<1, 2, 3, 4>>,
              method_id("set(uint256)"),
              method_id("set(uint256)") \o Word(0, 42),
              method_id("set(uint256)") \o <<42>>,
              method_id("burn(uint256)") \o Word(0, 1),
              method_id("burn(uint256)") \o Word(3, 7)},
     output : {<<>>, Word(0, 1)}]

\* ------------------------------------------------------- RuntimeHost machine

\* A host is made once, by RuntimeHost::new.  A future is [state, request,
\* result]: "sending" before its request is in the channel, "waiting" for the
\* reply after that, "done" with its result, "dropped" when its owner let go
\* of it.  The request of the i-th future has id i; its result_sender is the
\* sending half of the oneshot channel of that future.

filter_vars == <<log_filter, log_sources, call_filter, call_origin, block_filter, block_sources>>

Future(state, request, result) == [state |-> state, request |-> request, result |-> result]

\* A future that sends a request even when the call failed
FutureOf_always_sends(r, id) ==
    IF IsErr(r)
    THEN Future("sending",
                Some([id |-> id, trigger |-> [kind |-> "Block", handler |-> BlockHandler],
                      entity_operations |-> <<>>]),
                None)
    ELSE Future("sending",
                Some([id |-> id, trigger |-> r[2].trigger,
                      entity_operations |-> r[2].entity_operations]),
                None)

\* The future a process_* call returns: future::err(e), or the chain that
\* starts with mapping_request_sender.clone().send(request).
FutureOf(r, id) ==
    IF IsErr(r)
    THEN Future("done", None, Some(r))
    ELSE Future("sending",
                Some([id |-> id, trigger |-> r[2].trigger,
                      entity_operations |-> r[2].entity_operations]),
                None)

\* let host = RuntimeHost::new(.., config): the thread is spawned when the ABI
\* is found, and only then.
HostNew(configs) ==
    /\ op.name = "new"
    /\ \E config \in configs :
        LET r == RuntimeHost_new(config)
        IN  /\ op' = Op("host_new", <<config>>, r)
            /\ IF IsOk(r)
               THEN /\ host' = Some(r[2])
                    /\ guard' = "held"
                    /\ worker' = [state |-> "starting", request |-> None]
               ELSE UNCHANGED <<host, guard, worker>>
            /\ UNCHANGED <<queue, futures, enqueued, invoked, completed>>
            /\ UNCHANGED filter_vars

\* host.matches_log(&log)
MatchesLog ==
    /\ op.name = "host_new" /\ guard = "held"
    /\ \E log \in HostLogs :
        /\ op' = Op("matches_log", <<log>>, matches_log(host[1], log))
        /\ UNCHANGED host_vars
        /\ UNCHANGED filter_vars

\* host.matches_call(&call)
MatchesCall ==
    /\ op.name = "host_new" /\ guard = "held"
    /\ \E call \in HostCalls :
        /\ op' = Op("matches_call", <<call>>, matches_call(host[1], call))
        /\ UNCHANGED host_vars
        /\ UNCHANGED filter_vars

\* host.matches_block(&block, &call)
MatchesBlock ==
    /\ op.name = "host_new" /\ guard = "held"
    /\ \E block \in BlockNumbers, call \in HostCalls :
        /\ op' = Op("matches_block", <<block, call>>, matches_block(host[1], block, call))
        /\ UNCHANGED host_vars
        /\ UNCHANGED filter_vars

\* host.process_log(.., log, entity_operations), up to the return of the future
ProcessLog(logs, operations) ==
    /\ guard = "held" /\ Len(futures) < MaxCalls
    /\ \E log \in logs, entity_operations \in operations :
        LET r == process_log(host[1], log, entity_operations)
            id == Len(futures) + 1
        IN  /\ futures' = Append(futures, FutureOf(r, id))
            /\ op' = Op("process_log", <<id, log, entity_operations>>, r)
            /\ UNCHANGED <<host, guard, worker, queue, enqueued, invoked, completed>>
            /\ UNCHANGED filter_vars

\* host.process_call(.., call, entity_operations), up to the return of the future
ProcessCall(calls, operations) ==
    /\ guard = "held" /\ Len(futures) < MaxCalls
    /\ \E call \in calls, entity_operations \in operations :
        LET r == process_call(host[1], call, entity_operations)
            id == Len(futures) + 1
        IN  /\ futures' = Append(futures, FutureOf(r, id))
            /\ op' = Op("process_call", <<id, call, entity_operations>>, r)
            /\ UNCHANGED <<host, guard, worker, queue, enqueued, invoked, completed>>
            /\ UNCHANGED filter_vars

\* host.process_block(.., entity_operations), up to the return of the future
ProcessBlock ==
    /\ guard = "held" /\ Len(futures) < MaxCalls
    /\ \E entity_operations \in PriorOps :
        LET r == process_block(host[1], entity_operations)
            id == Len(futures) + 1
        IN  /\ futures' = Append(futures, FutureOf(r, id))
            /\ op' = Op("process_block", <<id, entity_operations>>, r)
            /\ UNCHANGED <<host, guard, worker, queue, enqueued, invoked, completed>>
            /\ UNCHANGED filter_vars

\* A host and the first call on it, over every configuration and every input.
HostProcessLog == futures = <<>> /\ op.name = "host_new" /\ ProcessLog(HostLogs, PriorOps)
HostProcessCall == futures = <<>> /\ op.name = "host_new" /\ ProcessCall(HostCalls, PriorOps)
HostProcessBlock == futures = <<>> /\ op.name = "host_new" /\ ProcessBlock

NextHost ==
    \/ HostNew(HostConfigs)
    \/ MatchesLog
    \/ MatchesCall
    \/ MatchesBlock
    \/ HostProcessLog
    \/ HostProcessCall
    \/ HostProcessBlock

SpecHost == Init /\ [][NextHost]_vars

\* ------------------------------------------------------ RuntimeHost claims

\* C11: matches_log(log) is true exactly when the address of the data source
\* is log.address and log.topics is not empty and topics[0] is the keccak hash
\* of the signature of a declared event handler; it is false for a log
\* without topics and for a host whose data source has no address.
C11_MatchesLog ==
    op.name = "matches_log" =>
        LET self == host[1]
            log == op.args[1]
        IN  /\ op.ret = TRUE <=>
                   /\ self.data_source_contract.address # None
                   /\ self.data_source_contract.address[1] = log.address
                   /\ log.topics # <<>>
                   /\ \E i \in 1..Len(self.data_source_event_handlers) :
                          log.topics[1] = keccak256(self.data_source_event_handlers[i].event)
            /\ log.topics = <<>> => op.ret = FALSE
            /\ self.data_source_contract.address = None => op.ret = FALSE

\* matches_log is true for a log whose topics[0] is the hash of the second of
\* two declared events.
C11_Witness ==
    /\ op.name = "matches_log"
    /\ op.ret = TRUE
    /\ Len(host[1].data_source_event_handlers) = 2
    /\ op.args[1].topics[1] = keccak256(host[1].data_source_event_handlers[2].event)
    /\ op.args[1].topics[1] # keccak256(host[1].data_source_event_handlers[1].event)

\* The first four bytes of the input are the method id of a declared call handler.
InputNamesHandler(self, call) ==
    /\ Len(call.input) >= 4
    /\ \E i \in 1..Len(self.data_source_call_handlers) :
           \A k \in 1..4 :
               call.input[k] = keccak256(self.data_source_call_handlers[i].function)[k]

\* C12: whenever matches_call(call) is true, call.to is the address of the
\* data source and the first four bytes of call.input are the first four
\* bytes of the keccak hash of the function of a declared call handler; and
\* whenever both hold, matches_call(call) is true.
C12_MatchesCall ==
    op.name = "matches_call" =>
        LET self == host[1]
            call == op.args[1]
            both == /\ self.data_source_contract.address = Some(call.to)
                    /\ InputNamesHandler(self, call)
        IN  /\ op.ret = Returned(TRUE) => both
            /\ both => op.ret = Returned(TRUE)

\* matches_call is true by the second of two call handlers, whose method id
\* differs from the first's.
C12_Witness ==
    /\ op.name = "matches_call"
    /\ op.ret = Returned(TRUE)
    /\ Len(host[1].data_source_call_handlers) = 2
    /\ SubSeq(op.args[1].input, 1, 4) = method_id(host[1].data_source_call_handlers[2].function)
    /\ SubSeq(op.args[1].input, 1, 4) # method_id(host[1].data_source_call_handlers[1].function)

\* C13: matches_block(block, call) is true exactly when the host has a block
\* handler and call.to is the address of the data source, whatever the block
\* and whatever the input of the call.
C13_MatchesBlock ==
    op.name = "matches_block" =>
        LET self == host[1]
            call == op.args[2]
        IN  op.ret = TRUE <=>
                /\ self.data_source_block_handler # None
                /\ self.data_source_contract.address = Some(call.to)

\* matches_block is true for a call whose input names no call handler of the
\* host, and is too short to hold a method id.
C13_Witness ==
    /\ op.name = "matches_block"
    /\ op.ret = TRUE
    /\ Len(op.args[2].input) < 4
    /\ host[1].data_source_call_handlers # <<>>

\* C14: if matches_log(log) is true, process_log(.., log, ..) fails neither
\* because no event handler is found nor because the signature of the event
\* is not found in the ABI of the contract.
C14_MatchedLogIsResolved ==
    (op.name = "process_log" /\ matches_log(host[1], op.args[2])) =>
        /\ op.ret # Err("No event handler found for event in data source")
        /\ op.ret # Err("Event with the signature not found in contract")

\* C16: process_call decodes call.input[4..] against the types of the INPUT
\* parameters of the function and its request is a Call trigger whose inputs
\* are the decoded values under the names of those parameters, whatever the
\* outputs of the function are: when the call handler and its function in the
\* ABI are found, the arguments decode against the input types and the output
\* decodes, the call returns that request.
C16_InputsDecodedAgainstInputTypes ==
    op.name = "process_call" =>
        LET self == host[1]
            call == op.args[2]
            call_handler == handler_for_call(self, call)
            function_abi == contract_function_with_signature(
                                self.data_source_contract_abi.contract,
                                call_handler[2].function)
            arguments == decode(Kinds(function_abi[1].inputs),
                                SubSeq(call.input, 5, Len(call.input)))
        IN  (/\ IsOk(call_handler)
             /\ function_abi # None
             /\ IsOk(arguments)
             /\ IsOk(call_outputs(function_abi[1], call)))
            => /\ IsOk(op.ret)
               /\ op.ret[2].trigger.kind = "Call"
               /\ op.ret[2].trigger.inputs =
                      [i \in 1..Len(function_abi[1].inputs) |->
                          [name |-> function_abi[1].inputs[i].name,
                           value |-> arguments[2][i]]]

\* C19: RuntimeHost::new returns an error and starts no thread when no ABI of
\* the mapping has the name the source declares; every host that was made
\* holds an ABI of that name.
C19_HostHoldsDeclaredAbi ==
    /\ op.name = "host_new" =>
           LET data_source == op.args[1].data_source
           IN  (\A i \in 1..Len(data_source.mapping.abis) :
                    data_source.mapping.abis[i].name # data_source.source.abi)
               => /\ IsErr(op.ret)
                  /\ host = None
                  /\ guard = "none"
                  /\ worker.state = "none"
    /\ host = None => worker.state = "none"
    /\ host # None =>
           host[1].data_source_contract_abi.name = host[1].data_source_contract.abi

\* new was called with ABIs none of which has the declared name.
C19_Witness ==
    /\ op.name = "host_new"
    /\ op.args[1].data_source.mapping.abis # <<>>
    /\ IsErr(op.ret)
    /\ worker.state = "none"

\* --------------------------------------------------------- the mapping thread

\* The thread that new() spawns validates the module and then serves the
\* requests of the channel one after the other until the channel or the
\* cancel receiver ends the stream.  worker.state is "none" before the thread
\* is spawned, "starting" before the module is validated, "running" between
\* two requests, "busy" while a handler runs, "exited" after the thread has
\* returned and "panicked" after it has panicked.  That the spawning of the
\* thread itself fails is left out.

\* A request receiver that outlives the thread
ReceiverAlive_forever == worker.state # "none"

\* The mapping_request_receiver lives as long as the thread does.
ReceiverAlive == worker.state \in {"starting", "running", "busy"}

Ids(requests) == {requests[k].id : k \in 1..Len(requests)}

\* Requests that are dropped without their result_receiver being told
Orphan_unnoticed(fs, ids) == fs

\* The futures after the requests with these ids were dropped unanswered:
\* their result_receiver ends with Canceled.
Orphan(fs, ids) ==
    [i \in 1..Len(fs) |->
        IF i \in ids /\ fs[i].state = "waiting"
        THEN Future("done", fs[i].request,
                    Some(Err("Mapping terminated before finishing to handle")))
        ELSE fs[i]]

\* mpsc::Receiver::poll: the request that was sent first, and the others.
dequeue_newest(requests) ==
    [request |-> requests[Len(requests)], rest |-> SubSeq(requests, 1, Len(requests) - 1)]

dequeue(requests) == [request |-> Head(requests), rest |-> Tail(requests)]

\* What the handler of the module returns: the entity operations of the
\* context and those of the handler, or an error.
MappingResponse(request, outcome) ==
    IF outcome = "ok"
    THEN Ok(request.entity_operations \o <<request.trigger.handler.handler>>)
    ELSE Err("handler failed")

\* ValidModule::new(..).expect("Failed to validate module")
WorkerStart ==
    /\ worker.state = "starting"
    /\ \E valid \in BOOLEAN :
        IF valid
        THEN /\ worker' = [state |-> "running", request |-> None]
             /\ UNCHANGED <<futures, queue>>
        ELSE /\ worker' = [state |-> "panicked", request |-> None]
             /\ futures' = Orphan(futures, Ids(queue))
             /\ queue' = <<>>
    /\ UNCHANGED <<host, guard, enqueued, invoked, completed, op>>
    /\ UNCHANGED filter_vars

\* A send that puts the request into the channel twice
FutureSend_twice ==
    \E i \in 1..Len(futures) :
        /\ futures[i].state = "sending"
        /\ IF ReceiverAlive
           THEN /\ queue' = queue \o <<futures[i].request[1], futures[i].request[1]>>
                /\ enqueued' = enqueued \o <<i, i>>
                /\ futures' = [futures EXCEPT ![i].state = "waiting"]
           ELSE /\ futures' = [futures EXCEPT ![i] =
                                  Future("done", @.request,
                                         Some(Err("Mapping terminated before passing in")))]
                /\ UNCHANGED <<queue, enqueued>>
        /\ UNCHANGED <<host, guard, worker, invoked, completed, op>>
        /\ UNCHANGED filter_vars

\* A future is polled for the first time: mapping_request_sender.clone().send(request).
\* The clone is a new sender, whose first message the channel takes at once.
FutureSend ==
    \E i \in 1..Len(futures) :
        /\ futures[i].state = "sending"
        /\ IF ReceiverAlive
           THEN /\ queue' = Append(queue, futures[i].request[1])
                /\ enqueued' = Append(enqueued, i)
                /\ futures' = [futures EXCEPT ![i].state = "waiting"]
           ELSE /\ futures' = [futures EXCEPT ![i] =
                                  Future("done", @.request,
                                         Some(Err("Mapping terminated before passing in")))]
                /\ UNCHANGED <<queue, enqueued>>
        /\ UNCHANGED <<host, guard, worker, invoked, completed, op>>
        /\ UNCHANGED filter_vars

\* The owner of a future drops it before it has resolved.
FutureDrop ==
    \E i \in 1..Len(futures) :
        /\ futures[i].state \in {"sending", "waiting"}
        /\ futures' = [futures EXCEPT ![i].state = "dropped"]
        /\ UNCHANGED <<host, guard, worker, queue, enqueued, invoked, completed, op>>
        /\ UNCHANGED filter_vars

\* for_each takes the next request; from_valid_module_with_ctx(..)? makes the
\* module for it, and ends the loop when it fails.
WorkerReceive ==
    /\ worker.state = "running"
    /\ queue # <<>>
    /\ \E instantiated \in BOOLEAN :
        LET next == dequeue(queue)
        IN  IF instantiated
            THEN /\ worker' = [state |-> "busy", request |-> Some(next.request)]
                 /\ queue' = next.rest
                 /\ invoked' = Append(invoked, next.request.id)
                 /\ UNCHANGED futures
            ELSE /\ worker' = [state |-> "exited", request |-> None]
                 /\ queue' = <<>>
                 /\ futures' = Orphan(futures, Ids(queue))
                 /\ UNCHANGED invoked
    /\ UNCHANGED <<host, guard, enqueued, completed, op>>
    /\ UNCHANGED filter_vars

\* A thread that goes on when the receiver of the result is gone
WorkerFinish_ignores_send_error ==
    /\ worker.state = "busy"
    /\ \E outcome \in {"ok", "err", "panic"} :
        LET request == worker.request[1]
            id == request.id
        IN  IF outcome = "panic"
            THEN /\ worker' = [state |-> "panicked", request |-> None]
                 /\ futures' = Orphan(futures, {id} \cup Ids(queue))
                 /\ queue' = <<>>
                 /\ UNCHANGED completed
            ELSE /\ completed' = Append(completed, id)
                 /\ IF futures[id].state = "waiting"
                    THEN /\ futures' = [futures EXCEPT ![id] =
                                 Future("done", @.request,
                                        Some(MappingResponse(request, outcome)))]
                         /\ worker' = [state |-> "running", request |-> None]
                         /\ UNCHANGED queue
                    ELSE /\ worker' = [state |-> "running", request |-> None]
                         /\ UNCHANGED <<futures, queue>>
    /\ UNCHANGED <<host, guard, enqueued, invoked, op>>
    /\ UNCHANGED filter_vars

\* A thread whose loop ends with the error of a handler
WorkerFinish_error_ends_loop ==
    /\ worker.state = "busy"
    /\ \E outcome \in {"ok", "err", "panic"} :
        LET request == worker.request[1]
            id == request.id
        IN  IF outcome = "panic"
            THEN /\ worker' = [state |-> "panicked", request |-> None]
                 /\ futures' = Orphan(futures, {id} \cup Ids(queue))
                 /\ queue' = <<>>
                 /\ UNCHANGED completed
            ELSE /\ completed' = Append(completed, id)
                 /\ IF futures[id].state = "waiting"
                    THEN /\ futures' = [futures EXCEPT ![id] =
                                 Future("done", @.request,
                                        Some(MappingResponse(request, outcome)))]
                         /\ worker' = [state |-> IF outcome = "err" THEN "exited" ELSE "running",
                                       request |-> None]
                         /\ UNCHANGED queue
                    ELSE /\ worker' = [state |-> "exited", request |-> None]
                         /\ futures' = Orphan(futures, Ids(queue))
                         /\ queue' = <<>>
    /\ UNCHANGED <<host, guard, enqueued, invoked, op>>
    /\ UNCHANGED filter_vars

\* The handler returns and result_sender.send(result) answers the request; the
\* loop ends when the receiver of the result is gone.  Or the handler panics.
WorkerFinish ==
    /\ worker.state = "busy"
    /\ \E outcome \in {"ok", "err", "panic"} :
        LET request == worker.request[1]
            id == request.id
        IN  IF outcome = "panic"
            THEN /\ worker' = [state |-> "panicked", request |-> None]
                 /\ futures' = Orphan(futures, {id} \cup Ids(queue))
                 /\ queue' = <<>>
                 /\ UNCHANGED completed
            ELSE /\ completed' = Append(completed, id)
                 /\ IF futures[id].state = "waiting"
                    THEN /\ futures' = [futures EXCEPT ![id] =
                                 Future("done", @.request,
                                        Some(MappingResponse(request, outcome)))]
                         /\ worker' = [state |-> "running", request |-> None]
                         /\ UNCHANGED queue
                    ELSE /\ worker' = [state |-> "exited", request |-> None]
                         /\ futures' = Orphan(futures, Ids(queue))
                         /\ queue' = <<>>
    /\ UNCHANGED <<host, guard, enqueued, invoked, op>>
    /\ UNCHANGED filter_vars

\* drop(host): _guard, the cancel sender, is dropped with it.
HostDrop ==
    /\ guard = "held"
    /\ guard' = "dropped"
    /\ UNCHANGED <<host, worker, queue, futures, enqueued, invoked, completed, op>>
    /\ UNCHANGED filter_vars

\* A cancellation that panics the thread, as a message on the cancel channel would
WorkerCancel_panics ==
    /\ worker.state = "running"
    /\ guard = "dropped"
    /\ worker' = [state |-> "panicked", request |-> None]
    /\ futures' = Orphan(futures, Ids(queue))
    /\ queue' = <<>>
    /\ UNCHANGED <<host, guard, enqueued, invoked, completed, op>>
    /\ UNCHANGED filter_vars

\* select finds the cancel receiver ended: the stream yields Err("Cancelled"),
\* for_each ends and wait().ok() swallows the error.  select may as well
\* yield a request that is ready, so this step is not forced.
WorkerCancel ==
    /\ worker.state = "running"
    /\ guard = "dropped"
    /\ worker' = [state |-> "exited", request |-> None]
    /\ futures' = Orphan(futures, Ids(queue))
    /\ queue' = <<>>
    /\ UNCHANGED <<host, guard, enqueued, invoked, completed, op>>
    /\ UNCHANGED filter_vars

\* One host with every kind of handler, with and without a block handler.
\* Token declares no Approval event.  The logs and calls come without prior
\* entity operations, the blocks with and without.
WorkerConfigs ==
    { Config(Some("0xAAAA"), "Token", <<TokenABI, StoreABI>>,
             <<EventHandler("Approval(address,address,uint256)"),
               EventHandler("Transfer(address,address,uint256)")>>,
             <<TransactionHandler("burn(uint256)"), TransactionHandler("set(uint256)")>>,
             block_handler) : block_handler \in {None, Some(BlockHandler)} }

\* A Transfer log that parses, one without data, an Approval log and a log of
\* an event no handler is declared for.
WorkerLogs ==
    { [address |-> "0xAAAA", topics |-> topics, data |-> data] :
        topics \in {<<keccak256("Transfer(address,address,uint256)"), Word(0, 1), Word(0, 2)>>},
        data \in {<<>>, Word(0, 5)} }
    \cup { [address |-> "0xAAAA",
            topics |-> <<keccak256("Approval(address,address,uint256)"), Word(0, 1), Word(0, 2)>>,
            data |-> Word(0, 5)],
           [address |-> "0xAAAA",
            topics |-> <<keccak256("OwnershipTransferred(address,address)")>>,
            data |-> <<>>] }

\* A call of burn that decodes, one whose argument does not, a call of set,
\* a call of an unknown function and an input of three bytes.
WorkerCalls ==
    { [to |-> "0xAAAA", input |-> method_id("burn(uint256)") \o Word(0, 1), output |-> Word(0, 1)],
      [to |-> "0xAAAA", input |-> method_id("burn(uint256)") \o Word(3, 7), output |-> Word(0, 1)],
      [to |-> "0xAAAA", input |-> method_id("set(uint256)") \o Word(0, 42), output |-> <<>>],
      [to |-> "0xAAAA", input |-> <<1, 2, 3, 4>>, output |-> <<>>],
      [to |-> "0xAAAA", input |-> <<96, 254, 71>>, output |-> <<>>] }

NextWorker ==
    \/ HostNew(WorkerConfigs)
    \/ ProcessLog(WorkerLogs, {<<>>})
    \/ ProcessCall(WorkerCalls, {<<>>})
    \/ ProcessBlock
    \/ FutureSend
    \/ FutureDrop
    \/ WorkerStart
    \/ WorkerReceive
    \/ WorkerFinish
    \/ HostDrop
    \/ WorkerCancel

SpecWorker == Init /\ [][NextWorker]_vars

\* ------------------------------------------------- claims about the thread

\* The errors of a process_* call that come from the handler lookup, the ABI
\* lookup, the parsing and the count of the tokens.
DecodeErrors ==
    { Err("No event handler found for event in data source"),
      Err("No call handler found for call in data source"),
      Err("Event with the signature not found in contract"),
      Err("Function with the signature not found in contract"),
      Err("Failed to parse parameters of event"),
      Err("Generating function inputs for an Ethereum call failed"),
      Err("Generating function outputs for an Ethereum call failed"),
      Err("Number of arguments in call does not match number of inputs in function signature."),
      Err("Number of paramters in the call output does not match number of outputs in the function signature.") }

Count(s, x) == Cardinality({k \in 1..Len(s) : s[k] = x})

\* C15: whenever process_log or process_call fails because no handler
\* matches, the event or function is absent from the ABI, the parsing fails or
\* the count of the decoded tokens is wrong, the future it returns is an error
\* and the call leaves the queue and the thread as they were; the request is
\* never put on the queue afterwards either.
C15_FailedCallEnqueuesNothing ==
    /\ [][(/\ op' # op
           /\ op'.name \in {"process_log", "process_call"}
           /\ op'.ret \in DecodeErrors)
          => /\ futures'[op'.args[1]] = Future("done", None, Some(op'.ret))
             /\ queue' = queue
             /\ enqueued' = enqueued
             /\ worker' = worker]_vars
    /\ [](\A i \in 1..Len(futures) :
              (futures[i].state = "done" /\ futures[i].result[1] \in DecodeErrors)
              => /\ futures[i].request = None
                 /\ i \notin Range(enqueued)
                 /\ i \notin Ids(queue))

\* process_call failed on the count of the tokens while the thread was running
\* and the request of an earlier call was waiting in the queue.
C15_Witness ==
    /\ op.name = "process_call"
    /\ op.ret = Err("Number of arguments in call does not match number of inputs in function signature.")
    /\ worker.state = "running"
    /\ Len(queue) = 1
    /\ futures[op.args[1]].state = "done"
    /\ futures[queue[1].id].state = "waiting"

\* C17: process_call on a call whose input has fewer than four bytes returns
\* the future of the error "input with less than 4 bytes"; it does not panic
\* and nothing is enqueued for it.
C17_ShortInputIsRejected ==
    (op.name = "process_call" /\ Len(op.args[2].input) < 4) =>
        /\ op.ret = Err("Ethereum call has input with less than 4 bytes")
        /\ futures[op.args[1]] = Future("done", None, Some(op.ret))
        /\ op.args[1] \notin Range(enqueued)
        /\ op.args[1] \notin Ids(queue)

\* process_call was given three bytes after another request was enqueued.
C17_Witness ==
    /\ op.name = "process_call"
    /\ Len(op.args[2].input) = 3
    /\ IsErr(op.ret)
    /\ enqueued # <<>>

\* C18: process_block on a host without block handler returns the future of an
\* error and nothing is enqueued for it; on a host with a block handler its
\* future sends exactly one request, a Block trigger with that handler and
\* the entity operations that were passed in: the request is in the channel
\* once from the send on, and only a send to a thread that is gone fails.
C18_ProcessBlock ==
    op.name = "process_block" =>
        LET id == op.args[1]
            future == futures[id]
        IN  IF host[1].data_source_block_handler = None
            THEN /\ op.ret = Err("RuntimeHost does not have a block handler")
                 /\ future = Future("done", None, Some(op.ret))
                 /\ Count(enqueued, id) = 0
                 /\ id \notin Ids(queue)
            ELSE /\ IsOk(op.ret)
                 /\ future.request =
                        Some([id |-> id,
                              trigger |-> [kind |-> "Block",
                                           handler |-> host[1].data_source_block_handler[1]],
                              entity_operations |-> op.args[2]])
                 /\ Count(enqueued, id) <= 1
                 /\ future.state = "sending" => Count(enqueued, id) = 0
                 /\ future.state = "waiting" => Count(enqueued, id) = 1
                 /\ future.state = "done" =>
                        IF future.result[1] = Err("Mapping terminated before passing in")
                        THEN Count(enqueued, id) = 0 /\ ~ReceiverAlive
                        ELSE Count(enqueued, id) = 1
                 /\ \A k \in 1..Len(queue) :
                        queue[k].id = id =>
                            /\ queue[k] = future.request[1]
                            /\ \A j \in 1..Len(queue) : queue[j].id = id => j = k

\* The Block trigger of process_block, with the entity operations it was
\* given, waits in the queue behind another request.
C18_Witness ==
    /\ op.name = "process_block"
    /\ op.args[2] # <<>>
    /\ futures[op.args[1]].state = "waiting"
    /\ Len(queue) = 2
    /\ queue[2].id = op.args[1]
    /\ queue[2].trigger.kind = "Block"
    /\ queue[2].entity_operations = op.args[2]

IsPrefix(s, t) == Len(s) <= Len(t) /\ \A k \in 1..Len(s) : s[k] = t[k]

\* C20: the thread runs the handlers of a host one at a time, in the order in
\* which the requests were enqueued: the handlers started are a prefix of the
\* requests enqueued, and a handler is started only after every handler
\* started before it has returned.
C20_HandlersRunInEnqueueOrder ==
    /\ IsPrefix(invoked, enqueued)
    /\ IsPrefix(completed, invoked)
    /\ Len(invoked) <= Len(completed) + 1
    /\ worker.state = "busy" =>
           /\ invoked # <<>>
           /\ worker.request[1].id = invoked[Len(invoked)]
           /\ Len(completed) = Len(invoked) - 1

\* Two handlers were run, in the order of the sends, which is not the order
\* of the calls.
C20_Witness ==
    /\ enqueued = <<2, 1>>
    /\ invoked = <<2, 1>>
    /\ completed = <<2>>
    /\ worker.state = "busy"

\* ---------------------------------------------------- the request channel

\* let (mapping_request_sender, mapping_request_receiver) = channel(100)
RequestBuffer == 100

\* The most calls of process_block that are made while the thread takes no
\* request.
MaxOutstanding == 101

\* A futures 0.1 mpsc channel holds buffer + number-of-senders messages: every
\* sender has a slot of its own beside the shared buffer, so the first send
\* of a sender is always taken, and the sender is parked afterwards when the
\* buffer is exceeded.  process_* sends through a clone of the sender that is
\* made for this one send, which is what FutureSend does.  The runs below are
\* those in which the thread is slow: it validates its module while the
\* dispatcher calls process_block and polls the future, again and again.

ChannelConfigs ==
    { Config(Some("0xAAAA"), "Token", <<TokenABI>>, <<>>, <<>>, Some(BlockHandler)) }

\* host.process_block(.., vec![]) once the future of the call before is polled
ChannelProcessBlock ==
    /\ guard = "held" /\ Len(futures) < MaxOutstanding
    /\ \A i \in 1..Len(futures) : futures[i].state # "sending"
    /\ LET r == process_block(host[1], <<>>)
           id == Len(futures) + 1
       IN  /\ futures' = Append(futures, FutureOf(r, id))
           /\ op' = Op("process_block", <<id, <<>>>>, r)
           /\ UNCHANGED <<host, guard, worker, queue, enqueued, invoked, completed>>
           /\ UNCHANGED filter_vars

NextChannel ==
    \/ HostNew(ChannelConfigs)
    \/ ChannelProcessBlock
    \/ FutureSend

SpecChannel == Init /\ [][NextChannel]_vars

\* C21: the request queue of a host never holds more than 100 requests,
\* however the futures of process_log, process_call and process_block, each
\* sending through its own clone of the sender, are interleaved.
C21_QueueIsBounded == Len(queue) <= RequestBuffer

\* ------------------------------------------------- the thread under fairness

\* The life cycle of the thread does not depend on what a request carries, so
\* it is run with two kinds of call: process_block, and process_log on a log
\* that parses.
LifeCycleLogs ==
    { [address |-> "0xAAAA",
       topics |-> <<keccak256("Transfer(address,address,uint256)"), Word(0, 1), Word(0, 2)>>,
       data |-> Word(0, 5)] }

LifeCycleConfigs ==
    { Config(Some("0xAAAA"), "Token", <<TokenABI>>,
             <<EventHandler("Transfer(address,address,uint256)")>>, <<>>,
             Some(BlockHandler)) }

NextLifeCycle ==
    \/ HostNew(LifeCycleConfigs)
    \/ ProcessLog(LifeCycleLogs, {<<>>})
    \/ ProcessBlock
    \/ FutureSend
    \/ FutureDrop
    \/ WorkerStart
    \/ WorkerReceive
    \/ WorkerFinish
    \/ HostDrop
    \/ WorkerCancel

\* The mapping thread is an operating system thread of its own, so a step of
\* it that stays possible is taken: the validation of the module, the next
\* request, the end of the handler that runs (handlers are taken to return or
\* panic; nothing in the loop times a handler out) and the end of the stream
\* once the cancel receiver has ended.  Futures are polled by their owners,
\* of whom nothing is assumed.
SpecLifeCycle ==
    /\ Init /\ [][NextLifeCycle]_vars
    /\ WF_vars(WorkerStart)
    /\ WF_vars(WorkerReceive)
    /\ WF_vars(WorkerFinish)
    /\ WF_vars(WorkerCancel)

\* The errors of a future whose request did not reach a handler that answered.
DispatchErrors ==
    { Err("Mapping terminated before passing in"),
      Err("Mapping terminated before finishing to handle") }

C23_RepliesReachTheirOwnFuture ==
    /\ [](\A i \in 1..Len(futures) :
              /\ Count(enqueued, i) <= 1
              /\ Count(invoked, i) <= 1
              /\ Count(completed, i) <= 1
              /\ (futures[i].state = "done" /\ futures[i].result[1] \notin DispatchErrors
                                            /\ futures[i].request # None)
                 => /\ i \in Range(completed)
                    /\ IsOk(futures[i].result[1]) =>
                           futures[i].result[1][2] =
                               futures[i].request[1].entity_operations
                                   \o <<futures[i].request[1].trigger.handler.handler>>
              /\ (i \in Range(completed) /\ futures[i].state = "done")
                 => futures[i].result[1] \notin DispatchErrors)
    /\ [][\A i \in 1..Len(futures) :
              /\ futures[i].state = "done" => futures'[i] = futures[i]
              /\ (/\ futures[i].state # "done"
                  /\ futures'[i].state = "done"
                  /\ futures'[i].result[1] \notin DispatchErrors)
                 => /\ worker.state = "busy"
                    /\ worker.request[1] = futures[i].request[1]
                    /\ completed' = Append(completed, i)]_vars

\* Two requests of different kinds were answered, in the order of their sends,
\* and each future holds the operations of its own handler.
C23_Witness ==
    /\ enqueued = <<2, 1>>
    /\ completed = <<2, 1>>
    /\ futures[1].state = "done" /\ IsOk(futures[1].result[1])
    /\ futures[2].state = "done" /\ IsOk(futures[2].result[1])
    /\ futures[1].result # futures[2].result

(***************************************************************************)
(* The trigger query of the chain adapter                                  *)
(***************************************************************************)

\* EthereumBlockPointer: a block hash and a block number.
BlockPointer(number, hash) == [number |-> number, hash |-> hash]

\* The block of the main chain at a number, and the uncle a reorg leaves
\* beside it.
MainBlock(n) == BlockPointer(n, "main")
UncleBlock(n) == BlockPointer(n, "uncle")

\* blocks(from, to): the pointers of the range, in ascending order.
blocks(from, to) == [i \in 1..(to - from + 1) |-> MainBlock(from + i - 1)]

\* What blocks_with_logs(from, to, log_filter) can answer: some blocks of the
\* range, in ascending order.
RECURSIVE ascending(_)
ascending(S) ==
    IF S = {} THEN <<>>
    ELSE LET m == CHOOSE x \in S : \A y \in S : x <= y
         IN  <<MainBlock(m)>> \o ascending(S \ {m})

blocks_with_logs(from, to) == { ascending(S) : S \in SUBSET (from..to) }

\* What blocks_with_calls(from, to, call_filter) can answer: a set of blocks
\* of the range; the node may by then have replaced the last block.
blocks_with_calls(from, to) ==
    SUBSET ({MainBlock(n) : n \in from..to} \cup {UncleBlock(to)})

\* HashSet<EthereumBlockPointer> into a Vec: some order of the elements.
RECURSIVE into_vec(_)
into_vec(S) ==
    IF S = {} THEN {<<>>}
    ELSE UNION { { <<x>> \o rest : rest \in into_vec(S \ {x}) } : x \in S }

\* Vec::sort_by(|a, b| a.number.cmp(&b.number)): a stable insertion by number.
insert_by_number(sorted, x) ==
    LET k == FirstIndex({i \in 1..Len(sorted) : sorted[i].number > x.number})
    IN  IF k = 0 THEN Append(sorted, x)
        ELSE SubSeq(sorted, 1, k - 1) \o <<x>> \o SubSeq(sorted, k, Len(sorted))

RECURSIVE sort_by_number(_)
sort_by_number(v) ==
    IF v = <<>> THEN <<>>
    ELSE insert_by_number(sort_by_number(SubSeq(v, 1, Len(v) - 1)), v[Len(v)])

\* A trigger query that hands the answers on as they come
blocks_with_triggers_concat(with_logs, with_calls, all_blocks, filter) ==
    { with_logs \o v \o (IF filter.trigger_every_block THEN all_blocks ELSE <<>>) :
        v \in into_vec(with_calls) }

\* blocks_with_triggers: the answers of blocks_with_logs, of blocks_with_calls
\* and, if trigger_every_block, of blocks(from, to) are put together, repeated
\* pointers are dropped and the rest is sorted by block number.  The order of
\* two pointers with the same number is not determined.
blocks_with_triggers(with_logs, with_calls, all_blocks, filter) ==
    LET every == IF filter.trigger_every_block THEN all_blocks ELSE <<>>
        union == Range(with_logs) \cup with_calls \cup Range(every)
    IN  { sort_by_number(v) : v \in into_vec(union) }

\* A query asks for at most MaxRange blocks.
MaxRange == 3

\* The block filters of single data sources.
TriggerBlockFilters ==
    { EthereumBlockFilter_from_data_sources(<<D>>) : D \in BlockDataSources }

\* adapter.blocks_with_triggers(logger, from, to, log_filter, call_filter, block_filter)
BlocksWithTriggers ==
    /\ op.name = "new"
    /\ \E from \in BlockNumbers, to \in BlockNumbers, b \in TriggerBlockFilters :
        /\ from <= to /\ to < from + MaxRange
        /\ \E with_logs \in blocks_with_logs(from, to),
              with_calls \in blocks_with_calls(from, to) :
            \E r \in blocks_with_triggers(with_logs, with_calls, blocks(from, to), b) :
                op' = Op("blocks_with_triggers",
                         <<from, to, b, with_logs, with_calls, blocks(from, to)>>, r)
    /\ UNCHANGED host_vars
    /\ UNCHANGED filter_vars

NextTriggers == BlocksWithTriggers

SpecTriggers == Init /\ [][NextTriggers]_vars

\* C24: the result of blocks_with_triggers holds the pointers answered by
\* blocks_with_logs and blocks_with_calls, those of blocks(from, to) exactly
\* when trigger_every_block is set, and nothing else; no pointer occurs
\* twice and block numbers never go down along the result.
C24_BlocksWithTriggers ==
    op.name = "blocks_with_triggers" =>
        LET b == op.args[3]
            with_logs == op.args[4]
            with_calls == op.args[5]
            all_blocks == op.args[6]
            r == op.ret
        IN  /\ \A p \in Range(r) :
                   \/ p \in Range(with_logs)
                   \/ p \in with_calls
                   \/ b.trigger_every_block /\ p \in Range(all_blocks)
            /\ Range(with_logs) \subseteq Range(r)
            /\ with_calls \subseteq Range(r)
            /\ b.trigger_every_block => Range(all_blocks) \subseteq Range(r)
            /\ \A i, j \in 1..Len(r) : i < j => r[i] # r[j] /\ r[i].number <= r[j].number

\* The same block is answered by both queries, the last block in two
\* versions, and a block of the range is in neither answer.
C24_Witness ==
    /\ op.name = "blocks_with_triggers"
    /\ ~op.args[3].trigger_every_block
    /\ \E p \in Range(op.args[4]) : p \in op.args[5]
    /\ UncleBlock(op.args[2]) \in op.args[5]
    /\ MainBlock(op.args[2]) \in Range(op.args[4])
    /\ \E p \in Range(op.args[6]) : p \notin Range(op.ret)
    /\ Len(op.ret) >= 3

\* The handler of a request returned and the future of the request had been
\* dropped: result_sender.send(result) failed.
ReplyRefused == \E id \in Range(completed) : futures[id].state = "dropped"

\* C25: when the receiver of a result is gone by the time the thread sends the
\* result, the loop of the thread ends: the request is the last one handled,
\* no handler is started afterwards, nothing stays in the channel, and every
\* future whose request was made and whose handler did not return resolves,
\* if it resolves, to a dispatch error.
C25_DroppedReceiverEndsTheLoop ==
    /\ [](ReplyRefused =>
            /\ worker.state = "exited"
            /\ queue = <<>>
            /\ invoked = completed
            /\ futures[completed[Len(completed)]].state = "dropped"
            /\ \A i \in 1..Len(futures) :
                   /\ futures[i].state # "waiting"
                   /\ (/\ futures[i].state = "done"
                       /\ futures[i].request # None
                       /\ i \notin Range(completed))
                      => futures[i].result[1] \in DispatchErrors)
    /\ [][ReplyRefused => (invoked' = invoked /\ completed' = completed /\ worker' = worker)]_vars

\* The first request was handled after its future was dropped, and a call
\* made afterwards could not pass its request in.
C25_Witness ==
    /\ ReplyRefused
    /\ completed = <<1>>
    /\ Len(futures) = 2
    /\ futures[2].request # None
    /\ futures[2].result = Some(Err("Mapping terminated before passing in"))

\* The thread has returned or panicked.
Ended == worker.state \in {"exited", "panicked"}

\* The steps of the life-cycle of the thread.
LifeCycleSteps ==
    { <<"none", "starting">>,
      <<"starting", "running">>, <<"starting", "panicked">>,
      <<"running", "busy">>, <<"running", "exited">>,
      <<"busy", "running">>, <<"busy", "exited">>, <<"busy", "panicked">> }

\* C26: the life-cycle of the thread only moves forward.  Once the thread has
\* ended, by a return or by a panic, its state never changes again, it takes
\* no request and starts and finishes no handler, nothing is or gets into the
\* channel, no future waits for a reply, and every send a future tries ends
\* that future with "Mapping terminated before passing in".
C26_LifeCycleOnlyMovesForward ==
    /\ [][worker'.state # worker.state =>
              <<worker.state, worker'.state>> \in LifeCycleSteps]_vars
    /\ [](Ended => /\ queue = <<>>
                   /\ \A i \in 1..Len(futures) : futures[i].state # "waiting")
    /\ [][Ended =>
            /\ worker' = worker
            /\ invoked' = invoked
            /\ completed' = completed
            /\ enqueued' = enqueued
            /\ \A i \in 1..Len(futures) :
                   (futures[i].state = "sending" /\ futures'[i].state \notin {"sending", "dropped"})
                   => /\ futures'[i].state = "done"
                      /\ futures'[i].result =
                             Some(Err("Mapping terminated before passing in"))]_vars

\* A handler panicked, and the request made afterwards was not passed in.
C26_Witness ==
    /\ worker.state = "panicked"
    /\ invoked = <<1>>
    /\ enqueued = <<1>>
    /\ Len(futures) = 2
    /\ futures[1].result = Some(Err("Mapping terminated before finishing to handle"))
    /\ futures[2].request # None
    /\ futures[2].result = Some(Err("Mapping terminated before passing in"))

\* The call filters that differ from a filter in their start blocks at most.
WithOtherStartBlocks(filter) ==
    { [a \in DOMAIN filter |-> <<start_block[a], filter[a][2]>>] :
        start_block \in [DOMAIN filter -> {None} \cup {Some(n) : n \in BlockNumbers}] }

\* C27: what matches(call) gives, a boolean or a panic, is the same for every
\* call filter that has the same addresses and the same method ids under each
\* address, whatever start blocks are stored.
C27_MatchesIgnoresStartBlock ==
    op.name = "call_matches" =>
        \A other \in WithOtherStartBlocks(call_filter) :
            EthereumCallFilter_matches(other, op.args[1]) = op.ret

\* A call is matched by method id under an entry that has a start block.
C27_Witness ==
    /\ op.name = "call_matches"
    /\ op.ret = Returned(TRUE)
    /\ call_filter[op.args[1].to][1] # None
    /\ call_filter[op.args[1].to][2] # {}

\* C28: extend only adds to what a call filter matches: a call that a or b
\* matched before a.extend(b) is matched by a afterwards.
C28_ExtendOnlyEnlarges ==
    op.name = "call_extend" =>
        \A call \in Calls :
            (\/ EthereumCallFilter_matches(op.args[1], call) = Returned(TRUE)
             \/ EthereumCallFilter_matches(op.args[2], call) = Returned(TRUE))
            => EthereumCallFilter_matches(call_filter, call) = Returned(TRUE)

\* C29: matches_call returns a boolean for every call, the calls whose input
\* is shorter than four bytes included.
C29_MatchesCallReturns ==
    op.name = "matches_call" => op.ret \in {Returned(TRUE), Returned(FALSE)}

(***************************************************************************)
(* One data source, its log filter and its host                            *)
(***************************************************************************)

\* The RuntimeHostConfig of a data source whose main contract is Store.
ConfigOf(data_source) ==
    Config(data_source.address, "Store", <<StoreABI>>,
           data_source.event_handlers, data_source.call_handlers,
           IF data_source.block_handlers = <<>> THEN None
           ELSE Some(data_source.block_handlers[1]))

\* let filter = EthereumLogFilter::from_data_sources(vec![&data_source]);
\* let host = RuntimeHost::new(.., config of data_source, ..)?
FilterAndHostNew ==
    /\ op.name = "new"
    /\ \E data_source \in LogDataSources :
        LET r == RuntimeHost_new(ConfigOf(data_source))
        IN  /\ IsOk(r)
            /\ log_filter' = EthereumLogFilter_from_data_sources(<<data_source>>)
            /\ log_sources' = <<data_source>>
            /\ host' = Some(r[2])
            /\ guard' = "held"
            /\ worker' = [state |-> "starting", request |-> None]
            /\ op' = Op("filter_and_host_new", <<data_source>>, r)
    /\ UNCHANGED <<queue, futures, enqueued, invoked, completed>>
    /\ UNCHANGED <<call_filter, call_origin, block_filter, block_sources>>

\* filter.matches(&log, &block_num) and host.matches_log(&log)
FilterAndHostMatch ==
    /\ op.name = "filter_and_host_new"
    /\ \E log \in HostLogs, block_num \in BlockNumbers :
        op' = Op("filter_and_host_match", <<log, block_num>>,
                 [filter |-> EthereumLogFilter_matches(log_filter, log, block_num),
                  host |-> matches_log(host[1], log)])
    /\ UNCHANGED host_vars
    /\ UNCHANGED filter_vars

NextAgree == FilterAndHostNew \/ FilterAndHostMatch

SpecAgree == Init /\ [][NextAgree]_vars

\* C30: a log that the log filter of a data source matches at some block
\* number is matched by the host of that data source, whether the data source
\* has an address or not.
C30_HostAcceptsWhatFilterSelects ==
    op.name = "filter_and_host_match" => (op.ret.filter => op.ret.host)

\* C31: with handlers that return or panic, a future whose request is in the
\* channel or with the thread does not wait for ever: it resolves or is
\* dropped by its owner, also when the thread ends while the request is still
\* in the channel.  A future with a request resolves to the result of its
\* handler or to a dispatch error, and a future that sends after the end of
\* the thread resolves in that step.
C31_NoFutureWaitsForever ==
    /\ \A i \in 1..MaxCalls :
           (Len(futures) >= i /\ futures[i].state = "waiting")
               ~> (Len(futures) >= i /\ futures[i].state \in {"done", "dropped"})
    /\ [](\A i \in 1..Len(futures) :
              (futures[i].state = "done" /\ futures[i].request # None)
              => \/ futures[i].result[1] \in DispatchErrors
                 \/ i \in Range(completed))
    /\ [][\A i \in 1..Len(futures) :
              (/\ worker.state \in {"exited", "panicked"}
               /\ futures[i].state = "sending"
               /\ futures'[i] # futures[i])
              => futures'[i].state \in {"done", "dropped"}]_vars

\* The thread ended with a request in the channel, and the future of that
\* request has the dispatch error.
C31_Witness ==
    /\ worker.state \in {"exited", "panicked"}
    /\ enqueued = <<1, 2>>
    /\ invoked = <<1>>
    /\ futures[2].state = "done"
    /\ futures[2].result = Some(Err("Mapping terminated before finishing to handle"))

\* The future holds the error its handler returned.
HandlerFailed(future) ==
    future.state = "done" /\ future.result = Some(Err("handler failed"))

\* C32: the error a handler returns is the result of the future of that
\* request, and the thread goes on: it is running after the reply, the
\* requests in the channel stay there, and handlers are still started and
\* finished in the order of the sends.
C32_HandlerErrorIsDelivered ==
    /\ [][\A i \in 1..Len(futures) :
              (~HandlerFailed(futures[i]) /\ HandlerFailed(futures'[i]))
              => /\ worker.state = "busy"
                 /\ worker.request[1] = futures[i].request[1]
                 /\ worker.request[1].id = i
                 /\ completed' = Append(completed, i)
                 /\ worker'.state = "running"
                 /\ queue' = queue]_vars
    /\ []((\E i \in 1..Len(futures) : HandlerFailed(futures[i]))
            => /\ IsPrefix(invoked, enqueued)
               /\ IsPrefix(completed, invoked))

\* The handler of the first request sent returned an error; the request sent
\* after it was handled and answered with entity operations.
C32_Witness ==
    /\ enqueued = <<2, 1>>
    /\ completed = <<2, 1>>
    /\ HandlerFailed(futures[2])
    /\ futures[1].state = "done" /\ IsOk(futures[1].result[1])
    /\ worker.state = "running"

\* C33: every entry of a call filter that from_data_sources built, extended
\* or not by filters from_data_sources built, has method ids: the filter has
\* an entry for the addresses of the data sources that declare a call handler
\* and for no other, so a data source with an address and without call
\* handlers adds none, and an entry without method ids is not among them.
C33_EntriesHaveMethodIds ==
    /\ call_origin.kind \in {"from_data_sources", "extended"} =>
           /\ \A address \in DOMAIN call_filter : call_filter[address][2] # {}
           /\ DOMAIN call_filter =
                  { D.address[1] : D \in { E \in Range(call_origin.from) :
                                              E.address # None /\ E.call_handlers # <<>> } }
    /\ op.name = "call_extend" =>
           \A address \in DOMAIN op.args[2] : op.args[2][address][2] # {}

\* A data source with an address and without call handlers left no entry
\* beside the entry of a data source that declares one.
C33_Witness ==
    /\ op.name = "call_from_data_sources"
    /\ Len(call_origin.from) = 2
    /\ call_origin.from[1].address = Some("0xAAAA")
    /\ call_origin.from[1].call_handlers = <<>>
    /\ call_origin.from[2].address = Some("0xBBBB")
    /\ call_origin.from[2].call_handlers # <<>>
    /\ DOMAIN call_filter = {"0xBBBB"}

====
